---------------------------- MODULE Spec2Model ----------------------------
(***************************************************************************)
(* Model of the ingestion-and-reconciliation pipeline of tech-jobs-tracker. *)
(*                                                                         *)
(* Part 1: the Reconciling Loader (src/etl/loader.py) on top of the        *)
(* Storage Access layer (src/database/db_manager.py) and the persisted     *)
(* schema (src/database/models.py).                                        *)
(*                                                                         *)
(* A table is a bag of rows: SQLite keeps every inserted row under its own *)
(* rowid, so two rows with equal column values are two rows.  The store    *)
(* seen through the connection is db; the durable, committed store is      *)
(* committed.  commit copies db to committed, rollback and close copy      *)
(* committed back to db.                                                   *)
(***************************************************************************)
EXTENDS Bags, FiniteSets, Integers, Sequences, TLC

(***************************************************************************)
(* Bounds of the model.                                                    *)
(***************************************************************************)
MaxBatch == 2
MaxLoads == 2
NumDates == 2
(* how many queries raise a persistence error in one behaviour *)
MaxFaults == 1

Dates == 1 .. NumDates

(* Python None / SQL NULL: an optional value is << >> or << v >> *)
NULL == << >>

(***************************************************************************)
(* Generic helpers on bags and finite sums.                                *)
(***************************************************************************)
RECURSIVE SumFn(_, _)
SumFn(f, S) ==
    IF S = {} THEN 0
    ELSE LET x == CHOOSE y \in S : TRUE
         IN  f[x] + SumFn(f, S \ {x})

BagAdd(B, row) == B (+) SetToBag({row})

Rows(B) == BagToSet(B)

RECURSIVE GCD(_, _)
GCD(a, b) == IF b = 0 THEN a ELSE GCD(b, a % b)

(* the exact value of sum / count, kept as a reduced fraction *)
Fraction(sum, count) ==
    LET g == GCD(sum, count)
    IN  << sum \div g, count \div g >>

(***************************************************************************)
(* The persisted schema.                                                   *)
(***************************************************************************)
EmptyDb ==
    [ job_postings     |-> EmptyBag,
      job_snapshots    |-> EmptyBag,
      salaries         |-> EmptyBag,
      technologies     |-> EmptyBag,
      job_technologies |-> EmptyBag,
      daily_metrics    |-> EmptyBag,
      scrape_runs      |-> EmptyBag ]

ZeroStats ==
    [ jobs_new |-> 0, jobs_updated |-> 0, jobs_expired |-> 0,
      technologies_new |-> 0, errors |-> 0 ]

(***************************************************************************)
(* Transformed job records handed to the loader (the shape built by        *)
(* DataTransformer.transform from DataExtractor.extract_job_data).         *)
(***************************************************************************)
Tech(name, category) == [ name |-> name, category |-> category ]

Item(job_id, title, company_name, url, location_type, salary, technologies) ==
    [ job_posting  |-> [ job_id |-> job_id, title |-> title,
                         company_name |-> company_name, url |-> url ],
      snapshot     |-> [ location_type |-> location_type ],
      salary       |-> salary,
      technologies |-> technologies ]

Salary(avg) == << [ salary_avg |-> avg ] >>

Items ==
    { Item("j1", "Dev", "Acme", "/job/dev-j1", "remote", Salary(10),
           << Tech("Python", "language"), Tech("Python", "language") >>),
      Item("j1", "Eng", "Bolt", "/job/eng-j1", "office", Salary(30),
           << Tech("Python", "framework") >>),
      Item("j2", "Ops", "Acme", "/job/ops-j2", "hybrid", NULL, << >>) }

(* NoFluffScraper._scrape_job_urls deduplicates the URLs it crawls, so     *)
(* a batch holds no record twice; two records of a batch can still carry   *)
(* the same external id                                                    *)
Batches ==
    UNION { { b \in [1 .. n -> Items] :
                \A i, j \in 1 .. n : b[i] = b[j] => i = j } :
            n \in 0 .. MaxBatch }

(* extract_job_data stamps first_seen_date and last_seen_date with today *)
Stamp(item, today) ==
    [ item EXCEPT !.job_posting =
        [ job_id          |-> item.job_posting.job_id,
          title           |-> item.job_posting.title,
          company_name    |-> item.job_posting.company_name,
          url             |-> item.job_posting.url,
          first_seen_date |-> today,
          last_seen_date  |-> today ] ]

(* where a query of _load_job can raise a persistence error *)
Faults == { "none", "lookup", "snapshot", "link" }

(***************************************************************************)
(* db              the store as seen through the connection                *)
(* committed       the durable store                                       *)
(* stats           DataLoader.stats                                        *)
(* pc              position of the running load_all call                   *)
(* batch           transformed_data_list of the running call               *)
(* snapshot_date   snapshot_date of the running call                       *)
(* pos             index of the next item of the batch                     *)
(* active_job_ids  ids loaded without error in the running call            *)
(* failed          positions of the batch whose load raised                *)
(* loads           number of load_all calls so far                         *)
(* faults          number of persistence errors raised so far              *)
(* outcome         how the last call ended, "running" while it runs        *)
(* pre             the store when the last call began                      *)
(* reloaded        the last call repeated the batch and the date of the    *)
(*                 call before it, which had returned without an error     *)
(***************************************************************************)
VARIABLES db, committed, stats, pc, batch, snapshot_date, pos, active_job_ids, failed, loads, faults, outcome, pre, reloaded

(***************************************************************************)
(* The other components, each with a specification of its own further      *)
(* down.  A component that takes no part in a specification is absent      *)
(* from it: its variables are NULL throughout.                              *)
(*                                                                         *)
(* now           the clock (time.time(), datetime.now()), in seconds       *)
(* breaker       the CircuitBreaker object                                 *)
(* breaker_seen  what a caller of the breaker has observed                 *)
(* pacer         the RateLimiter object                                    *)
(* pacer_seen    what a caller of the pacer has observed                   *)
(* fetch         the running NoFluffScraper._fetch_page call               *)
(* extraction    argument and result of DataExtractor.extract_batch        *)
(* run           the running invocation of run_etl.main                    *)
(* transformation  argument and result of a call of DataTransformer        *)
(* crawl         the running NoFluffScraper.scrape_all call                *)
(***************************************************************************)
VARIABLES now, breaker, breaker_seen, pacer, pacer_seen, fetch, extraction, run, transformation, crawl

loaderVars == << db, committed, stats, pc, batch, snapshot_date, pos,
                 active_job_ids, failed, loads, faults, outcome, pre, reloaded >>

breakerVars == << breaker, breaker_seen >>

pacerVars == << pacer, pacer_seen >>

vars == << loaderVars, now, breakerVars, pacerVars, fetch, extraction, run,
          transformation, crawl >>

(* everything but the loader and the store *)
offLoader ==
    << now, breakerVars, pacerVars, fetch, extraction, run,
       transformation, crawl >>

NoBreaker == breaker = NULL /\ breaker_seen = NULL

NoPacer == pacer = NULL /\ pacer_seen = NULL

(***************************************************************************)
(* Statements of the loader, as functions from store to store.             *)
(***************************************************************************)

(* SELECT * FROM job_postings WHERE job_id = ? *)
PostingRows(d, job_id) == { r \in Rows(d.job_postings) : r.job_id = job_id }

(* INSERT INTO job_postings ... VALUES (..., 1) *)
insert_job_posting(d, job_posting) ==
    [ d EXCEPT !.job_postings = BagAdd(@,
        [ job_id          |-> job_posting.job_id,
          title           |-> job_posting.title,
          company_name    |-> job_posting.company_name,
          url             |-> job_posting.url,
          first_seen_date |-> job_posting.first_seen_date,
          last_seen_date  |-> job_posting.last_seen_date,
          is_active       |-> 1 ]) ]

(* the UPDATE without is_active = 1 *)
UpdatedPosting_NoReactivate(job_posting, r) ==
    IF r.job_id = job_posting.job_id
    THEN [ r EXCEPT !.last_seen_date = job_posting.last_seen_date ]
    ELSE r

(* an UPDATE that also takes the title of the record *)
UpdatedPosting_Retitle(job_posting, r) ==
    IF r.job_id = job_posting.job_id
    THEN [ r EXCEPT !.title = job_posting.title,
                    !.last_seen_date = job_posting.last_seen_date,
                    !.is_active = 1 ]
    ELSE r

(* UPDATE job_postings SET last_seen_date = ?, is_active = 1 WHERE job_id = ? *)
UpdatedPosting(job_posting, r) ==
    IF r.job_id = job_posting.job_id
    THEN [ r EXCEPT !.last_seen_date = job_posting.last_seen_date,
                    !.is_active = 1 ]
    ELSE r

update_job_posting(d, job_posting) ==
    [ d EXCEPT !.job_postings =
        LET Upd(r) == UpdatedPosting(job_posting, r) IN BagOfAll(Upd, @) ]

(* rows of a bag that satisfy a key predicate, as a bag *)
DeleteConflicts(B, conflicts) ==
    [ r \in (Rows(B) \ conflicts) |-> B[r] ]

(* a plain INSERT INTO job_snapshots on a table without the constraint *)
insert_job_snapshot_Append(d, job_id, snapshot, date) ==
    [ d EXCEPT !.job_snapshots = BagAdd(@,
        [ job_id        |-> job_id,
          snapshot_date |-> date,
          location_type |-> snapshot.location_type ]) ]

(* INSERT OR REPLACE INTO job_snapshots, UNIQUE(job_id, snapshot_date) *)
insert_job_snapshot(d, job_id, snapshot, date) ==
    LET conflicts == { r \in Rows(d.job_snapshots) :
                          r.job_id = job_id /\ r.snapshot_date = date }
        row == [ job_id        |-> job_id,
                 snapshot_date |-> date,
                 location_type |-> snapshot.location_type ]
    IN  [ d EXCEPT !.job_snapshots =
            BagAdd(DeleteConflicts(@, conflicts), row) ]

(* INSERT OR REPLACE INTO salaries: the table has no UNIQUE constraint     *)
(* besides its rowid, so no row ever conflicts with the new one            *)
insert_salary(d, job_id, salary, date) ==
    LET conflicts == { }
        row == [ job_id        |-> job_id,
                 snapshot_date |-> date,
                 salary_avg    |-> salary.salary_avg ]
    IN  [ d EXCEPT !.salaries = BagAdd(DeleteConflicts(@, conflicts), row) ]

(* SELECT id FROM technologies WHERE name = ? *)
TechnologyRows(d, name) == { r \in Rows(d.technologies) : r.name = name }

(* _get_or_create_technology without the lookup by name *)
get_or_create_technology_NoLookup(d, st, tech_name, category) ==
    LET id == BagCardinality(d.technologies) + 1
    IN  [ db |-> [ d EXCEPT !.technologies = BagAdd(@,
                     [ id |-> id, name |-> tech_name, category |-> category ]) ],
          stats |-> [ st EXCEPT !.technologies_new = @ + 1 ],
          id |-> id ]

(* _get_or_create_technology that returns the row count read before the   *)
(* INSERT as the id of the new row                                         *)
get_or_create_technology_StaleId(d, st, tech_name, category) ==
    LET existing == TechnologyRows(d, tech_name)
    IN  IF existing # {}
        THEN [ db |-> d, stats |-> st,
               id |-> (CHOOSE r \in existing : TRUE).id ]
        ELSE LET id == BagCardinality(d.technologies) + 1
             IN  [ db |-> [ d EXCEPT !.technologies = BagAdd(@,
                              [ id |-> id, name |-> tech_name,
                                category |-> category ]) ],
                   stats |-> [ st EXCEPT !.technologies_new = @ + 1 ],
                   id |-> id - 1 ]

(* _get_or_create_technology that gives an existing row the category of   *)
(* the record at hand                                                      *)
get_or_create_technology_Recategorize(d, st, tech_name, category) ==
    LET existing == TechnologyRows(d, tech_name)
        id == BagCardinality(d.technologies) + 1
    IN  IF existing # {}
        THEN LET r == CHOOSE r \in existing : TRUE
             IN  [ db |-> [ d EXCEPT !.technologies =
                              BagAdd(@ (-) SetToBag({r}),
                                     [ r EXCEPT !.category = category ]) ],
                   stats |-> st,
                   id |-> r.id ]
        ELSE [ db |-> [ d EXCEPT !.technologies = BagAdd(@,
                          [ id |-> id, name |-> tech_name,
                            category |-> category ]) ],
               stats |-> [ st EXCEPT !.technologies_new = @ + 1 ],
               id |-> id ]

(* _get_or_create_technology: the store, the statistics and the id *)
get_or_create_technology(d, st, tech_name, category) ==
    LET existing == TechnologyRows(d, tech_name)
    IN  IF existing # {}
        THEN [ db |-> d, stats |-> st,
               id |-> (CHOOSE r \in existing : TRUE).id ]
        ELSE LET id == BagCardinality(d.technologies) + 1
             IN  [ db |-> [ d EXCEPT !.technologies = BagAdd(@,
                              [ id |-> id, name |-> tech_name,
                                category |-> category ]) ],
                   stats |-> [ st EXCEPT !.technologies_new = @ + 1 ],
                   id |-> id ]

(* INSERT OR IGNORE INTO job_technologies,                                 *)
(* UNIQUE(job_id, technology_id, snapshot_date)                            *)
link_job_technology(d, job_id, tech_id, date) ==
    LET conflicts == { r \in Rows(d.job_technologies) :
                          /\ r.job_id = job_id
                          /\ r.technology_id = tech_id
                          /\ r.snapshot_date = date }
        row == [ job_id |-> job_id, technology_id |-> tech_id,
                 snapshot_date |-> date ]
    IN  IF conflicts # {} THEN d
        ELSE [ d EXCEPT !.job_technologies = BagAdd(@, row) ]

(* _insert_technologies from element k on; linkFails: the first INSERT     *)
(* into job_technologies raises                                            *)
RECURSIVE insert_technologies(_, _, _, _, _, _, _)
insert_technologies(d, st, job_id, technologies, date, k, linkFails) ==
    IF k > Len(technologies)
    THEN [ db |-> d, stats |-> st, raised |-> FALSE ]
    ELSE LET tech == technologies[k]
             g == get_or_create_technology(d, st, tech.name, tech.category)
         IN  IF linkFails
             THEN [ db |-> g.db, stats |-> g.stats, raised |-> TRUE ]
             ELSE insert_technologies(
                      link_job_technology(g.db, job_id, g.id, date),
                      g.stats, job_id, technologies, date, k + 1, FALSE)

(* _load_job; fault names the query that raises, if any *)
load_job(d, st, job_data, date, fault) ==
    LET job_posting == job_data.job_posting
        job_id == job_posting.job_id
        existing == PostingRows(d, job_id)
    IN  IF fault = "lookup"
        THEN [ db |-> d, stats |-> st, raised |-> TRUE ]
        ELSE
        LET d1 == IF existing # {} THEN update_job_posting(d, job_posting)
                  ELSE insert_job_posting(d, job_posting)
            st1 == IF existing # {}
                   THEN [ st EXCEPT !.jobs_updated = @ + 1 ]
                   ELSE [ st EXCEPT !.jobs_new = @ + 1 ]
        IN  IF fault = "snapshot"
            THEN [ db |-> d1, stats |-> st1, raised |-> TRUE ]
            ELSE
            LET d2 == insert_job_snapshot(d1, job_id, job_data.snapshot, date)
                d3 == IF job_data.salary # NULL
                      THEN insert_salary(d2, job_id, job_data.salary[1], date)
                      ELSE d2
            IN  insert_technologies(d3, st1, job_id, job_data.technologies,
                                    date, 1, fault = "link")

(* _mark_expired_jobs that deactivates without looking at the ids seen *)
mark_expired_jobs_All(d, active_ids) ==
    LET all_active == [ r \in { x \in Rows(d.job_postings) : x.is_active = 1 }
                          |-> d.job_postings[r] ]
        Upd(r) == [ r EXCEPT !.is_active = 0 ]
    IN  [ db |-> [ d EXCEPT !.job_postings = BagOfAll(Upd, @) ],
          expired_count |-> BagCardinality(all_active) ]

(* _mark_expired_jobs: the store and expired_count *)
mark_expired_jobs(d, active_ids) ==
    LET all_active == [ r \in { x \in Rows(d.job_postings) : x.is_active = 1 }
                          |-> d.job_postings[r] ]
        expired == { r \in Rows(all_active) : r.job_id \notin active_ids }
        Upd(r) == IF r.job_id \in { x.job_id : x \in expired }
                  THEN [ r EXCEPT !.is_active = 0 ]
                  ELSE r
    IN  [ db |-> [ d EXCEPT !.job_postings = BagOfAll(Upd, @) ],
          expired_count |-> SumFn(all_active, expired) ]

(* rows of the metrics query: active postings LEFT JOIN the snapshots and  *)
(* LEFT JOIN the salaries of the date; the result maps each joined row to  *)
(* the number of times the join produces it                                *)
MetricsJoin(d, date) ==
    LET active == { r \in Rows(d.job_postings) : r.is_active = 1 }
        JS(jp) == { r \in Rows(d.job_snapshots) :
                       r.job_id = jp.job_id /\ r.snapshot_date = date }
        S(jp)  == { r \in Rows(d.salaries) :
                       r.job_id = jp.job_id /\ r.snapshot_date = date }
        JSside(jp) == IF JS(jp) = {} THEN { NULL } ELSE { << r >> : r \in JS(jp) }
        Sside(jp)  == IF S(jp) = {} THEN { NULL } ELSE { << r >> : r \in S(jp) }
        joined == UNION { { [ jp |-> jp, js |-> js, s |-> sal ] :
                              js \in JSside(jp), sal \in Sside(jp) } :
                          jp \in active }
        Copies(B, side) == IF side = NULL THEN 1 ELSE B[side[1]]
    IN  [ t \in joined |-> d.job_postings[t.jp]
                             * Copies(d.job_snapshots, t.js)
                             * Copies(d.salaries, t.s) ]

(* SUM(CASE WHEN js.location_type = type THEN 1 ELSE 0 END) *)
SumLocation(joined, type) ==
    IF DOMAIN joined = {} THEN NULL
    ELSE << SumFn(joined, { t \in DOMAIN joined :
                              t.js # NULL /\ t.js[1].location_type = type }) >>

(* AVG(s.salary_avg) *)
AvgSalary(joined) ==
    LET withSalary == { t \in DOMAIN joined : t.s # NULL }
        weighted == [ t \in withSalary |-> joined[t] * t.s[1].salary_avg ]
    IN  IF withSalary = {} THEN NULL
        ELSE Fraction(SumFn(weighted, withSalary), SumFn(joined, withSalary))

(* SELECT salary_avg FROM salaries WHERE snapshot_date = ?                 *)
(* ORDER BY salary_avg LIMIT 1 OFFSET (SELECT COUNT( * ) / 2 ...)          *)
MedianSalary(d, date) ==
    LET ofDate == { r \in Rows(d.salaries) : r.snapshot_date = date }
        Count(P(_)) == SumFn(d.salaries, { r \in ofDate : P(r.salary_avg) })
        total == SumFn(d.salaries, ofDate)
        offset == total \div 2
        values == { r.salary_avg : r \in ofDate }
        AtOffset(v) == LET Below(x) == x < v
                           UpTo(x) == x <= v
                       IN  Count(Below) <= offset /\ offset < Count(UpTo)
    IN  IF \E v \in values : AtOffset(v)
        THEN << CHOOSE v \in values : AtOffset(v) >>
        ELSE NULL

(* _update_daily_metrics: INSERT OR REPLACE INTO daily_metrics,            *)
(* UNIQUE(metric_date)                                                     *)
update_daily_metrics(d, metric_date) ==
    LET joined == MetricsJoin(d, metric_date)
        total_jobs == Cardinality({ t.jp.job_id : t \in DOMAIN joined })
        row == [ metric_date       |-> metric_date,
                 total_jobs        |-> total_jobs,
                 remote_jobs       |-> SumLocation(joined, "remote"),
                 office_jobs       |-> SumLocation(joined, "office"),
                 hybrid_jobs       |-> SumLocation(joined, "hybrid"),
                 avg_salary_pln    |-> AvgSalary(joined),
                 median_salary_pln |-> MedianSalary(d, metric_date),
                 jobs_scraped      |-> total_jobs ]
        conflicts == { r \in Rows(d.daily_metrics) : r.metric_date = metric_date }
    IN  [ d EXCEPT !.daily_metrics =
            BagAdd(DeleteConflicts(@, conflicts), row) ]

(***************************************************************************)
(* load_all, one step per item, then reconciliation with the metrics, and   *)
(* the commit.                                                             *)
(***************************************************************************)
(* DataLoader.__init__ on a freshly initialised database *)
FreshLoader ==
    /\ db = EmptyDb
    /\ committed = EmptyDb
    /\ stats = ZeroStats
    /\ pc = "idle"
    /\ batch = << >>
    /\ snapshot_date = 1
    /\ pos = 1
    /\ active_job_ids = {}
    /\ failed = {}
    /\ loads = 0
    /\ faults = 0
    /\ outcome = "none"
    /\ pre = EmptyDb
    /\ reloaded = FALSE

Init ==
    /\ FreshLoader
    /\ now = 0
    /\ transformation = NULL
    /\ crawl = NULL
    /\ NoBreaker
    /\ NoPacer
    /\ fetch = NULL
    /\ extraction = NULL
    /\ run = NULL

(* run_etl.py: the records are extracted and loaded on the same day, so   *)
(* the date stamped on them is the snapshot date of the call               *)
Today(date) == date

(* the loader compares dates for equality only, so the date of a run is    *)
(* one the store has a metric for, or the first one it has none for        *)
RunDates(d) ==
    { date \in Dates :
        \A earlier \in 1 .. date - 1 :
           \E r \in Rows(d.daily_metrics) : r.metric_date = earlier }

(* load_all is called: statistics reset, transaction opened *)
BeginLoad ==
    /\ UNCHANGED offLoader
    /\ pc = "idle"
    /\ loads < MaxLoads
    /\ \E raw \in Batches, date \in RunDates(committed) :
          /\ batch' = [ i \in DOMAIN raw |-> Stamp(raw[i], Today(date)) ]
          /\ snapshot_date' = date
    /\ reloaded' = /\ outcome = "returned"
                    /\ stats.errors = 0
                    /\ batch' = batch
                    /\ snapshot_date' = snapshot_date
    /\ stats' = ZeroStats
    /\ active_job_ids' = {}
    /\ failed' = {}
    /\ pos' = 1
    /\ pre' = db
    /\ loads' = loads + 1
    /\ pc' = "items"
    /\ outcome' = "running"
    /\ UNCHANGED << db, committed, faults >>

(* the loop without try / except: the error of an item leaves the          *)
(* transaction, which rolls back and raises                                *)
LoadItem_NoExcept ==
    /\ UNCHANGED offLoader
    /\ pc = "items"
    /\ pos <= Len(batch)
    /\ \E fault \in Faults :
          /\ fault = "link" => batch[pos].technologies # << >>
          /\ fault # "none" => faults < MaxFaults
          /\ faults' = IF fault = "none" THEN faults ELSE faults + 1
          /\ LET r == load_job(db, stats, batch[pos], snapshot_date, fault)
             IN  IF r.raised
                 THEN /\ db' = committed
                      /\ stats' = r.stats
                      /\ outcome' = "raised"
                      /\ pc' = "idle"
                      /\ batch' = << >>
                      /\ pos' = 1
                      /\ active_job_ids' = {}
                      /\ failed' = {}
                 ELSE /\ db' = r.db
                      /\ stats' = r.stats
                      /\ active_job_ids' =
                            active_job_ids \cup { batch[pos].job_posting.job_id }
                      /\ pos' = pos + 1
                      /\ UNCHANGED << failed, outcome, pc, batch >>
    /\ UNCHANGED << committed, snapshot_date, loads, pre, reloaded >>

(* the loop with a rollback in its except branch *)
LoadItem_RollbackOnError ==
    /\ UNCHANGED offLoader
    /\ pc = "items"
    /\ pos <= Len(batch)
    /\ \E fault \in Faults :
          /\ fault = "link" => batch[pos].technologies # << >>
          /\ fault # "none" => faults < MaxFaults
          /\ faults' = IF fault = "none" THEN faults ELSE faults + 1
          /\ LET r == load_job(db, stats, batch[pos], snapshot_date, fault)
             IN  IF r.raised
                 THEN /\ db' = committed
                      /\ stats' = [ r.stats EXCEPT !.errors = @ + 1 ]
                      /\ failed' = failed \cup { pos }
                      /\ UNCHANGED active_job_ids
                 ELSE /\ db' = r.db
                      /\ stats' = r.stats
                      /\ active_job_ids' =
                            active_job_ids \cup { batch[pos].job_posting.job_id }
                      /\ UNCHANGED failed
    /\ pos' = pos + 1
    /\ UNCHANGED << committed, pc, batch, snapshot_date, loads, outcome, pre, reloaded >>

(* one turn of the loop over the batch: _load_job inside try / except *)
LoadItem ==
    /\ UNCHANGED offLoader
    /\ pc = "items"
    /\ pos <= Len(batch)
    /\ \E fault \in Faults :
          /\ fault = "link" => batch[pos].technologies # << >>
          /\ fault # "none" => faults < MaxFaults
          /\ faults' = IF fault = "none" THEN faults ELSE faults + 1
          /\ LET r == load_job(db, stats, batch[pos], snapshot_date, fault)
             IN  /\ db' = r.db
                 /\ IF r.raised
                    THEN /\ stats' = [ r.stats EXCEPT !.errors = @ + 1 ]
                         /\ failed' = failed \cup { pos }
                         /\ UNCHANGED active_job_ids
                    ELSE /\ stats' = r.stats
                         /\ active_job_ids' =
                               active_job_ids \cup { batch[pos].job_posting.job_id }
                         /\ UNCHANGED failed
    /\ pos' = pos + 1
    /\ UNCHANGED << committed, pc, batch, snapshot_date, loads, outcome, pre, reloaded >>

(* after the loop: if active_job_ids: _mark_expired_jobs, and then         *)
(* _update_daily_metrics                                                   *)
Reconcile ==
    /\ UNCHANGED offLoader
    /\ pc = "items"
    /\ pos > Len(batch)
    /\ LET r == IF active_job_ids # {}
                THEN mark_expired_jobs(db, active_job_ids)
                ELSE [ db |-> db, expired_count |-> stats.jobs_expired ]
       IN  /\ db' = update_daily_metrics(r.db, snapshot_date)
           /\ stats' = [ stats EXCEPT !.jobs_expired = r.expired_count ]
    /\ pc' = "commit"
    /\ UNCHANGED << committed, batch, snapshot_date, pos, active_job_ids,
                    failed, loads, faults, outcome, pre, reloaded >>

(* DatabaseManager.transaction: the block ended, conn.commit() *)
Commit ==
    /\ UNCHANGED offLoader
    /\ pc = "commit"
    /\ committed' = db
    /\ outcome' = "returned"
    /\ pc' = "idle"
    /\ UNCHANGED << db, stats, batch, snapshot_date, pos, active_job_ids,
                    failed, loads, faults, pre, reloaded >>

(* the except branch of transaction() without conn.rollback() *)
RaiseInTransaction_NoRollback ==
    /\ UNCHANGED offLoader
    /\ pc = "commit" \/ (pc = "items" /\ pos > Len(batch))
    /\ committed' = db
    /\ outcome' = "raised"
    /\ pc' = "idle"
    /\ batch' = << >>
    /\ pos' = 1
    /\ active_job_ids' = {}
    /\ failed' = {}
    /\ UNCHANGED << db, stats, snapshot_date, loads, faults, pre, reloaded >>

(* DatabaseManager.transaction: an Exception left the block (a query of    *)
(* reconciliation or of the metrics, or the commit): conn.rollback(),      *)
(* raise.  The frame of load_all, with its locals, is gone; self.stats     *)
(* stays as the call left it.                                              *)
RaiseInTransaction ==
    /\ UNCHANGED offLoader
    /\ pc = "commit" \/ (pc = "items" /\ pos > Len(batch))
    /\ db' = committed
    /\ outcome' = "raised"
    /\ pc' = "idle"
    /\ batch' = << >>
    /\ pos' = 1
    /\ active_job_ids' = {}
    /\ failed' = {}
    /\ UNCHANGED << committed, stats, snapshot_date, loads, faults, pre, reloaded >>

(* an interrupt after which the closing connection commits what was       *)
(* written                                                                 *)
Interrupt_Commits ==
    /\ UNCHANGED offLoader
    /\ pc \in { "items", "commit" }
    /\ committed' = db
    /\ outcome' = "interrupted"
    /\ pc' = "idle"
    /\ batch' = << >>
    /\ pos' = 1
    /\ active_job_ids' = {}
    /\ failed' = {}
    /\ UNCHANGED << db, stats, snapshot_date, loads, faults, pre, reloaded >>

(* KeyboardInterrupt inside the transaction: neither except Exception of   *)
(* load_all nor that of transaction() catches it; it reaches the caller,   *)
(* whose finally closes the connection, which drops the uncommitted writes *)
Interrupt ==
    /\ UNCHANGED offLoader
    /\ pc \in { "items", "commit" }
    /\ db' = committed
    /\ outcome' = "interrupted"
    /\ pc' = "idle"
    /\ batch' = << >>
    /\ pos' = 1
    /\ active_job_ids' = {}
    /\ failed' = {}
    /\ UNCHANGED << committed, stats, snapshot_date, loads, faults, pre, reloaded >>

Next ==
    \/ BeginLoad
    \/ LoadItem
    \/ Reconcile
    \/ Commit
    \/ RaiseInTransaction
    \/ Interrupt

Spec == Init /\ [][Next]_vars

(***************************************************************************)
(* Properties of the Reconciling Loader.                                   *)
(***************************************************************************)
Returned == pc = "idle" /\ outcome = "returned"

BatchIds == { batch[i].job_posting.job_id : i \in DOMAIN batch }

(* the last two calls both returned, with the same batch and run date, and *)
(* every item loaded without error in both                                 *)
LoadedTwiceWithoutError ==
    /\ Returned
    /\ reloaded
    /\ stats.errors = 0
    /\ failed = {}

MetricRows(d, date) ==
    [ r \in { x \in Rows(d.daily_metrics) : x.metric_date = date }
        |-> d.daily_metrics[r] ]

(* C1: when load_all is called twice with the same batch and run date and  *)
(* every item loads without error, the second call reports jobs_new = 0,   *)
(* technologies_new = 0 and jobs_updated = the number of items.            *)
C1_SecondLoadOnlyUpdates ==
    LoadedTwiceWithoutError =>
        /\ stats.jobs_new = 0
        /\ stats.technologies_new = 0
        /\ stats.jobs_updated = Len(batch)

C1_Witness ==
    /\ LoadedTwiceWithoutError
    /\ Len(batch) = 2
    /\ \E i \in DOMAIN batch : batch[i].technologies # << >>
    /\ stats.jobs_updated = 2

(* C2: re-running load_all with an identical batch and the same run date   *)
(* leaves the DailyMetric row of that date as the first load left it.      *)
C2_MetricsUnchangedByReload ==
    LoadedTwiceWithoutError =>
        MetricRows(db, snapshot_date) = MetricRows(pre, snapshot_date)

(* postings of a store that are active and whose id is not in the batch *)
ActiveAbsent(d) ==
    { r \in Rows(d.job_postings) : r.is_active = 1 /\ r.job_id \notin BatchIds }

IsInactive(d, job_id) ==
    \A r \in PostingRows(d, job_id) : r.is_active = 0

(* C3 as claimed: after every load_all call, with a batch of any size      *)
(* (here: even when no item of it fails), every posting that was active    *)
(* before the call and whose id is not in the batch is inactive, and       *)
(* jobs_expired is the number of such postings.                            *)
C3_ExpiryForAnyBatch ==
    (Returned /\ failed = {}) =>
        /\ \A r \in ActiveAbsent(pre) : IsInactive(db, r.job_id)
        /\ stats.jobs_expired = Cardinality(ActiveAbsent(pre))

(* C3 amended: when at least one item loads without error, every posting   *)
(* that was active before the call and whose id is not in the batch is     *)
(* inactive afterwards; jobs_expired is at least the number of such        *)
(* postings and exactly that number when no item failed.  When no item     *)
(* loads without error (an empty batch, say) nothing is reconciled: such   *)
(* postings stay active and jobs_expired is 0.                             *)
C3_ExpiryWhenSomethingLoaded ==
    Returned =>
        IF active_job_ids # {}
        THEN /\ \A r \in ActiveAbsent(pre) : IsInactive(db, r.job_id)
             /\ stats.jobs_expired >= Cardinality(ActiveAbsent(pre))
             /\ failed = {} => stats.jobs_expired = Cardinality(ActiveAbsent(pre))
        ELSE /\ \A r \in ActiveAbsent(pre) : ~ IsInactive(db, r.job_id)
             /\ stats.jobs_expired = 0

C3_Witness ==
    /\ Returned
    /\ active_job_ids # {}
    /\ ActiveAbsent(pre) # {}
    /\ stats.jobs_expired = 1

(* C4 as claimed: after a committed load_all (here: even when no item of   *)
(* it fails) a posting is active iff its external id was in the batch of   *)
(* that load.                                                              *)
C4_ActiveIffInBatch ==
    (Returned /\ failed = {}) =>
        \A r \in Rows(db.job_postings) : r.is_active = 1 <=> r.job_id \in BatchIds

(* C4 amended: after a committed load_all in which at least one item       *)
(* loaded without error, a posting is active iff its external id is that   *)
(* of an item that loaded without error (an inactive one is reactivated),  *)
(* and the postings counted in jobs_expired are all inactive.              *)
C4_ActiveIffLoaded ==
    (Returned /\ active_job_ids # {}) =>
        /\ \A r \in Rows(db.job_postings) :
              r.is_active = 1 <=> r.job_id \in active_job_ids
        /\ \A id \in active_job_ids : PostingRows(db, id) # {}
        /\ stats.jobs_expired <=
              Cardinality({ r \in Rows(db.job_postings) : r.is_active = 0 })

(* a posting that was inactive before the call has been reactivated *)
C4_Witness ==
    /\ Returned
    /\ \E r \in Rows(pre.job_postings) :
          /\ r.is_active = 0
          /\ r.job_id \in active_job_ids
          /\ \E x \in PostingRows(db, r.job_id) : x.is_active = 1
    /\ stats.jobs_expired = 1

(* C5: when an error leaves the transaction of load_all, every write of    *)
(* that load is rolled back: all tables are as they were before the call,  *)
(* and the error is raised to the caller.                                  *)
C5_EscapedErrorRollsBack ==
    (pc = "idle" /\ outcome = "raised") =>
        /\ db = pre
        /\ committed = pre

(* the failed call had written postings, and expired one, before the error *)
C5_Witness ==
    /\ pc = "idle"
    /\ outcome = "raised"
    /\ stats.jobs_new > 0
    /\ stats.jobs_expired > 0
    /\ pre # EmptyDb

(* the rows an item writes when it loads without error *)
ItemIsVisible(d, job_data, date) ==
    LET job_id == job_data.job_posting.job_id
    IN  /\ PostingRows(d, job_id) # {}
        /\ \E r \in Rows(d.job_snapshots) :
              r.job_id = job_id /\ r.snapshot_date = date
        /\ job_data.salary # NULL =>
              [ job_id |-> job_id, snapshot_date |-> date,
                salary_avg |-> job_data.salary[1].salary_avg ]
                 \in Rows(d.salaries)
        /\ \A k \in DOMAIN job_data.technologies :
              \E t \in TechnologyRows(d, job_data.technologies[k].name) :
                 [ job_id |-> job_id, technology_id |-> t.id,
                   snapshot_date |-> date ] \in Rows(d.job_technologies)

(* C6 as claimed: if loading an item of the batch fails inside load_all,   *)
(* the store is left in its pre-run state.                                 *)
C6_ItemFailureRestoresStore ==
    (Returned /\ failed # {}) => committed = pre

(* C6 amended: an error of item N that load_all catches does not roll the  *)
(* run back: when the call returns, the posting, snapshot, salary and      *)
(* technology links of every item that loaded without error are           *)
(* committed, and so is the daily metric of the run date; the store is     *)
(* left in its pre-run state only when the call ends in a raised error or  *)
(* an interrupt.                                                           *)
C6_ItemFailureKeepsOtherItems ==
    (pc = "idle" /\ loads > 0) =>
        IF outcome = "returned"
        THEN failed # {} =>
                /\ \A i \in DOMAIN batch \ failed :
                      ItemIsVisible(committed, batch[i], snapshot_date)
                /\ MetricRows(committed, snapshot_date) # EmptyBag
        ELSE committed = pre /\ db = pre

(* item 1 of 2 failed, item 2 is committed *)
C6_Witness ==
    /\ Returned
    /\ Len(batch) = 2
    /\ failed = { 1 }
    /\ ItemIsVisible(committed, batch[2], snapshot_date)
    /\ batch[2].job_posting.job_id # batch[1].job_posting.job_id
    /\ PostingRows(pre, batch[2].job_posting.job_id) = {}

(* C7: an error raised by one item is caught: errors grows by exactly one, *)
(* the loop goes on with the next item, and the call, unless the           *)
(* transaction itself fails, processes every item, recomputes the metric   *)
(* of the run date and commits.                                            *)
C7_ItemErrorCounted ==
    [][ /\ pc = "items" /\ pos <= Len(batch)
        /\ ~ (pc' = "idle" /\ outcome' = "interrupted")
        => /\ pc' = "items"
           /\ pos' = pos + 1
           /\ committed' = committed
           /\ \/ /\ failed' = failed
                 /\ stats'.errors = stats.errors
                 /\ batch[pos].job_posting.job_id \in active_job_ids'
              \/ /\ failed' = failed \cup { pos }
                 /\ pos \notin failed
                 /\ stats'.errors = stats.errors + 1
                 /\ active_job_ids' = active_job_ids ]_vars

C7_FailedRunCompletes ==
    Returned =>
        /\ pos = Len(batch) + 1
        /\ stats.errors = Cardinality(failed)
        /\ \A i \in DOMAIN batch \ failed :
              batch[i].job_posting.job_id \in active_job_ids
        /\ active_job_ids # {} =>
              \A r \in Rows(db.job_postings) :
                 r.is_active = 1 => r.job_id \in active_job_ids
        /\ MetricRows(db, snapshot_date) # EmptyBag
        /\ committed = db

UniqueBy(B, Key(_)) ==
    Cardinality({ Key(r) : r \in Rows(B) }) = BagCardinality(B)

PostingKey(r)  == r.job_id
SnapshotKey(r) == << r.job_id, r.snapshot_date >>
LinkKey(r)     == << r.job_id, r.technology_id, r.snapshot_date >>
MetricKey(r)   == r.metric_date
SalaryKey(r)   == << r.job_id, r.snapshot_date >>

UniqueRows(d) ==
    /\ UniqueBy(d.job_postings, PostingKey)
    /\ UniqueBy(d.job_snapshots, SnapshotKey)
    /\ UniqueBy(d.job_technologies, LinkKey)
    /\ UniqueBy(d.daily_metrics, MetricKey)

(* the last item of the batch that carries this id *)
IsLastOfItsId(i) ==
    \A j \in DOMAIN batch :
        batch[j].job_posting.job_id = batch[i].job_posting.job_id => j <= i

(* C8: after any sequence of load_all calls the store holds at most one    *)
(* JobPosting per external id, one JobSnapshot per (posting, date), one    *)
(* JobTechnologyLink per (posting, technology, date) and one DailyMetric   *)
(* per date; a duplicate link costs no error, and the snapshot of the run  *)
(* date is the one of the last item loaded for the posting.                *)
C8_UniqueRows ==
    /\ UniqueRows(db)
    /\ pc = "idle" => UniqueRows(committed)
    /\ (Returned \/ pc # "idle") => stats.errors = Cardinality(failed)
    /\ (Returned /\ failed = {}) =>
          \A i \in DOMAIN batch :
             IsLastOfItsId(i) =>
                [ job_id |-> batch[i].job_posting.job_id,
                  snapshot_date |-> snapshot_date,
                  location_type |-> batch[i].snapshot.location_type ]
                   \in Rows(committed.job_snapshots)

(* a reload of a batch that repeats an external id with another location   *)
(* and names a technology twice: one posting, one snapshot, one link       *)
C8_Witness ==
    /\ LoadedTwiceWithoutError
    /\ Len(batch) = 2
    /\ batch[1].job_posting.job_id = batch[2].job_posting.job_id
    /\ batch[1].snapshot.location_type # batch[2].snapshot.location_type
    /\ \E i \in DOMAIN batch :
          /\ Len(batch[i].technologies) = 2
          /\ batch[i].technologies[1] = batch[i].technologies[2]
    /\ BagCardinality(committed.job_postings) = 1
    /\ BagCardinality(committed.job_snapshots) = 1
    /\ BagCardinality(committed.job_technologies) = 1

(* C9: after any sequence of load_all calls the store holds at most one    *)
(* Salary row per (posting, date).                                         *)
C9_OneSalaryPerPostingAndDate ==
    UniqueBy(committed.salaries, SalaryKey)

(* C10: in every committed state every JobSnapshot and Salary row refers   *)
(* to an existing JobPosting and every JobTechnologyLink to an existing    *)
(* JobPosting and an existing Technology.                                  *)
ReferencesHold(d) ==
    /\ \A r \in Rows(d.job_snapshots) : PostingRows(d, r.job_id) # {}
    /\ \A r \in Rows(d.salaries) : PostingRows(d, r.job_id) # {}
    /\ \A r \in Rows(d.job_technologies) :
          /\ PostingRows(d, r.job_id) # {}
          /\ \E t \in Rows(d.technologies) : t.id = r.technology_id

C10_ReferentialIntegrity ==
    /\ pc = "idle" => ReferencesHold(committed)
    /\ ReferencesHold(db)

(* a committed store with snapshots, salaries and links, reached through a *)
(* load with a failed item and a load that was rolled back                 *)
C10_Witness ==
    /\ pc = "idle"
    /\ faults > 0
    /\ outcome = "raised"
    /\ committed.job_snapshots # EmptyBag
    /\ committed.salaries # EmptyBag
    /\ committed.job_technologies # EmptyBag

(* the names of the catalog, and the names the records of the batch carry *)
TechnologyNamesOf(d) == { r.name : r \in Rows(d.technologies) }

BatchTechnologyNames ==
    UNION { { batch[i].technologies[k].name :
                k \in DOMAIN batch[i].technologies } : i \in DOMAIN batch }

(* C26: a Technology row that exists when a load begins is neither changed *)
(* nor deleted by the load, whatever category the batch gives its name;    *)
(* no two rows of the catalog have the same name; and when the load has    *)
(* returned, technologies_new is the number of names the catalog gained,   *)
(* which are the names of the batch it lacked when no item failed.         *)
C26_CatalogIsStable ==
    /\ \A r \in Rows(pre.technologies) :
          /\ CopiesIn(r, db.technologies) = 1
          /\ CopiesIn(r, committed.technologies) = 1
    /\ UniqueBy(db.technologies, LAMBDA r : r.name)
    /\ UniqueBy(committed.technologies, LAMBDA r : r.name)
    /\ Returned =>
          /\ stats.technologies_new =
                Cardinality(TechnologyNamesOf(committed)
                                \ TechnologyNamesOf(pre))
          /\ stats.errors = 0 =>
                TechnologyNamesOf(committed) =
                    TechnologyNamesOf(pre) \cup BatchTechnologyNames

(* the catalog has Python as a language, and the load that returned        *)
(* carried Python as a framework, and only that                            *)
C26_Witness ==
    /\ Returned
    /\ \E r \in Rows(pre.technologies) :
          r.name = "Python" /\ r.category = "language"
    /\ Len(batch) = 1
    /\ batch[1].technologies = << Tech("Python", "framework") >>
    /\ stats.technologies_new = 0
    /\ stats.errors = 0

(* the active postings of a store that have a snapshot of the date with    *)
(* the location type                                                       *)
ActiveAt(d, date, type) ==
    { jp \in Rows(d.job_postings) :
        /\ jp.is_active = 1
        /\ \E js \in Rows(d.job_snapshots) :
              /\ js.job_id = jp.job_id
              /\ js.snapshot_date = date
              /\ js.location_type = type }

(* a count of the metrics row, the SUM over no rows counted as 0 *)
Counted(sum) == IF sum = NULL THEN 0 ELSE sum[1]

(* C37: after every committed load_all(batch, run_date) the store has one  *)
(* DailyMetric row of run_date; its total_jobs is the number of active     *)
(* postings, its remote_jobs, office_jobs and hybrid_jobs are the numbers  *)
(* of active postings whose snapshot of run_date has that location type,   *)
(* and the three together are at most total_jobs.                          *)
C37_MetricsCountActivePostings ==
    Returned =>
        LET ofDate == { m \in Rows(committed.daily_metrics) :
                           m.metric_date = snapshot_date }
            active == { jp \in Rows(committed.job_postings) : jp.is_active = 1 }
        IN  /\ SumFn(committed.daily_metrics, ofDate) = 1
            /\ \A m \in ofDate :
                  /\ m.total_jobs = SumFn(committed.job_postings, active)
                  /\ Counted(m.remote_jobs) =
                        Cardinality(ActiveAt(committed, snapshot_date, "remote"))
                  /\ Counted(m.office_jobs) =
                        Cardinality(ActiveAt(committed, snapshot_date, "office"))
                  /\ Counted(m.hybrid_jobs) =
                        Cardinality(ActiveAt(committed, snapshot_date, "hybrid"))
                  /\ Counted(m.remote_jobs) + Counted(m.office_jobs)
                        + Counted(m.hybrid_jobs) <= m.total_jobs

(* C39: after load_all returns, every item of the batch is counted once,   *)
(* as new, as updated or as an error: the three counters add up to the     *)
(* length of the batch of this call, whatever earlier calls counted.       *)
C39_EveryItemCountedOnce ==
    Returned =>
        stats.jobs_new + stats.jobs_updated + stats.errors = Len(batch)

(* the columns of a posting that only the INSERT writes *)
AsInserted(r) ==
    [ job_id |-> r.job_id, title |-> r.title, company_name |-> r.company_name,
      url |-> r.url, first_seen_date |-> r.first_seen_date ]

BeginBackfill ==
    /\ UNCHANGED offLoader
    /\ pc = "idle"
    /\ loads < MaxLoads
    /\ \E raw \in Batches, date \in RunDates(committed), today \in Dates :
          /\ batch' = [ i \in DOMAIN raw |-> Stamp(raw[i], today) ]
          /\ snapshot_date' = date
    /\ reloaded' = /\ outcome = "returned"
                    /\ stats.errors = 0
                    /\ batch' = batch
                    /\ snapshot_date' = snapshot_date
    /\ stats' = ZeroStats
    /\ active_job_ids' = {}
    /\ failed' = {}
    /\ pos' = 1
    /\ pre' = db
    /\ loads' = loads + 1
    /\ pc' = "items"
    /\ outcome' = "running"
    /\ UNCHANGED << db, committed, faults >>

BackfillNext ==
    \/ BeginBackfill
    \/ LoadItem
    \/ Reconcile
    \/ Commit
    \/ RaiseInTransaction
    \/ Interrupt

BackfillSpec == Init /\ [][BackfillNext]_vars

(* the ids the store had when the call began *)
KnownIds == { r.job_id : r \in Rows(pre.job_postings) }

(* C27: when load_all(batch, run_date) has returned without an item error, *)
(* every id of the batch has one active JobPosting whose last-seen date is *)
(* run_date, and whose first-seen date is run_date too if the store did    *)
(* not have the id; jobs_new is the number of ids the store did not have   *)
(* and jobs_updated the number of the other records of the batch.          *)
C27_PostingDatesAreRunDate ==
    (Returned /\ stats.errors = 0) =>
        /\ \A id \in BatchIds :
              /\ Cardinality(PostingRows(committed, id)) = 1
              /\ \A r \in PostingRows(committed, id) :
                    /\ r.is_active = 1
                    /\ r.last_seen_date = snapshot_date
                    /\ id \notin KnownIds => r.first_seen_date = snapshot_date
        /\ stats.jobs_new = Cardinality(BatchIds \ KnownIds)
        /\ stats.jobs_updated = Len(batch) - stats.jobs_new

(***************************************************************************)
(* Part 2: the Circuit Breaker (src/scraper/rate_limiter.py,               *)
(* class CircuitBreaker).                                                  *)
(***************************************************************************)
MaxThreshold == 2
MaxTimeout == 2
(* the clock stops at MaxTime, the failure counter at MaxFailureCount *)
MaxTime == 5
MaxFailureCount == 3

(* CircuitBreaker.__init__; last_failure_time is << >> for None and << t >> *)
(* for the time t                                                          *)
CircuitBreaker(failure_threshold, timeout_seconds) ==
    [ failure_threshold |-> failure_threshold,
      timeout_seconds   |-> timeout_seconds,
      failure_count     |-> 0,
      last_failure_time |-> NULL,
      state             |-> "closed" ]

record_success_KeepsCount(b) == [ b EXCEPT !.state = "closed" ]

record_success(b) == [ b EXCEPT !.failure_count = 0, !.state = "closed" ]

(* opens one failure late *)
record_failure_Late(b, t) ==
    LET count == b.failure_count + 1
    IN  [ b EXCEPT !.failure_count = count,
                   !.last_failure_time = << t >>,
                   !.state = IF count > b.failure_threshold THEN "open" ELSE @ ]

(* keeps the time of the failure that opened the circuit first *)
record_failure_KeepsTime(b, t) ==
    LET count == b.failure_count + 1
    IN  [ b EXCEPT !.failure_count = count,
                   !.last_failure_time =
                       IF b.state = "half-open" THEN @ ELSE << t >>,
                   !.state = IF count >= b.failure_threshold THEN "open" ELSE @ ]

record_failure(b, t) ==
    LET count == b.failure_count + 1
    IN  [ b EXCEPT !.failure_count = count,
                   !.last_failure_time = << t >>,
                   !.state = IF count >= b.failure_threshold THEN "open" ELSE @ ]

(* the trial starts from a zero counter *)
can_proceed_Forgets(b, t) ==
    IF b.state = "closed"
    THEN [ breaker |-> b, result |-> TRUE ]
    ELSE IF b.state = "open"
    THEN IF /\ b.last_failure_time # NULL
            /\ t - b.last_failure_time[1] >= b.timeout_seconds
         THEN [ breaker |-> [ b EXCEPT !.state = "half-open",
                                       !.failure_count = 0 ],
                result |-> TRUE ]
         ELSE [ breaker |-> b, result |-> FALSE ]
    ELSE [ breaker |-> b, result |-> TRUE ]

(* can_proceed returns a boolean and may move the state *)
can_proceed(b, t) ==
    IF b.state = "closed"
    THEN [ breaker |-> b, result |-> TRUE ]
    ELSE IF b.state = "open"
    THEN IF /\ b.last_failure_time # NULL
            /\ t - b.last_failure_time[1] >= b.timeout_seconds
         THEN [ breaker |-> [ b EXCEPT !.state = "half-open" ], result |-> TRUE ]
         ELSE [ breaker |-> b, result |-> FALSE ]
    ELSE [ breaker |-> b, result |-> TRUE ]

(* CircuitBreaker.reset *)
breaker_reset(b) ==
    [ b EXCEPT !.failure_count = 0, !.last_failure_time = NULL,
               !.state = "closed" ]

(* what the caller has seen: the last call, the breaker before it, the     *)
(* time of the call and, for can_proceed, its answer; the number of        *)
(* record_failure calls since the breaker was last closed with a zero      *)
(* counter and the time of the last of them; the number of calls let       *)
(* through since the breaker last went half-open (counted up to 2);        *)
(* whether the breaker was opened from half-open                           *)
Seen(op, before, at, answer, fails, failed_at, trials, reopened) ==
    [ op |-> op, before |-> before, at |-> at, answer |-> answer,
      fails |-> fails, failed_at |-> failed_at, trials |-> trials,
      reopened |-> reopened ]

BreakerInit ==
    /\ FreshLoader
    /\ now = 0
    /\ transformation = NULL
    /\ crawl = NULL
    /\ NoPacer
    /\ fetch = NULL
    /\ extraction = NULL
    /\ run = NULL
    /\ \E failure_threshold \in 1 .. MaxThreshold,
          timeout_seconds \in 1 .. MaxTimeout :
          breaker = CircuitBreaker(failure_threshold, timeout_seconds)
    /\ breaker_seen = Seen("new", breaker, 0, FALSE, 0, 0, 0, FALSE)

offBreaker ==
    << loaderVars, pacerVars, fetch, extraction, run,
       transformation, crawl >>

RecordSuccess ==
    /\ breaker # NULL
    /\ breaker' = record_success(breaker)
    /\ breaker_seen' =
          Seen("record_success", breaker, now, FALSE, 0, 0, 0, FALSE)
    /\ UNCHANGED << now, offBreaker >>

RecordFailure ==
    /\ breaker # NULL
    /\ breaker.failure_count < MaxFailureCount
    /\ breaker' = record_failure(breaker, now)
    /\ breaker_seen' =
          Seen("record_failure", breaker, now, FALSE, breaker_seen.fails + 1,
               now, 0,
               IF breaker.state = "closed"
               THEN FALSE
               ELSE breaker.state = "half-open" \/ breaker_seen.reopened)
    /\ UNCHANGED << now, offBreaker >>

CanProceed ==
    /\ breaker # NULL
    /\ LET r == can_proceed(breaker, now)
       IN  /\ breaker' = r.breaker
           /\ breaker_seen' =
                 [ breaker_seen EXCEPT
                     !.op = "can_proceed", !.before = breaker, !.at = now,
                     !.answer = r.result,
                     !.trials = IF r.breaker.state = "half-open" /\ r.result
                                THEN IF @ < 2 THEN @ + 1 ELSE @
                                ELSE 0 ]
    /\ UNCHANGED << now, offBreaker >>

ResetBreaker ==
    /\ breaker # NULL
    /\ breaker' = breaker_reset(breaker)
    /\ breaker_seen' = Seen("reset", breaker, now, FALSE, 0, 0, 0, FALSE)
    /\ UNCHANGED << now, offBreaker >>

(* a second passes *)
Tick ==
    /\ now < MaxTime
    /\ now' = now + 1
    /\ UNCHANGED << loaderVars, breakerVars, pacerVars, fetch, extraction, run,
                    transformation, crawl >>

BreakerNext ==
    \/ RecordSuccess
    \/ RecordFailure
    \/ CanProceed
    \/ ResetBreaker
    \/ Tick

BreakerSpec == BreakerInit /\ [][BreakerNext]_vars

(***************************************************************************)
(* Properties of the Circuit Breaker.                                      *)
(***************************************************************************)
Asked == breaker_seen.op = "can_proceed"

SinceFailure == breaker_seen.at - breaker_seen.failed_at

(* C11: starting closed with a zero counter, after failure_threshold       *)
(* consecutive record_failure calls the state is open and can_proceed      *)
(* answers false while less than timeout_seconds have passed since the     *)
(* last failure; after fewer failures the state is closed and can_proceed  *)
(* answers true.                                                           *)
C11_OpensAtThreshold ==
    /\ breaker_seen.fails < breaker.failure_threshold =>
          /\ breaker.state = "closed"
          /\ Asked => breaker_seen.answer
    /\ (breaker_seen.op = "record_failure"
          /\ breaker_seen.fails = breaker.failure_threshold) =>
          breaker.state = "open"
    /\ (Asked /\ breaker_seen.fails >= breaker.failure_threshold
          /\ SinceFailure < breaker.timeout_seconds) =>
          /\ ~ breaker_seen.answer
          /\ breaker.state = "open"

(* refused one second after the second of two failures *)
C11_Witness ==
    /\ Asked
    /\ breaker.failure_threshold = 2
    /\ breaker_seen.fails = 2
    /\ breaker_seen.before.state = "open"
    /\ SinceFailure = 1
    /\ ~ breaker_seen.answer

(* C12: when the breaker is open and timeout_seconds have passed since the *)
(* last failure, can_proceed answers true and the state becomes half-open; *)
(* record_success, in any state, sets the counter to 0 and the state to    *)
(* closed.                                                                 *)
C12_HalfOpenAfterTimeout ==
    /\ (Asked /\ breaker_seen.before.state = "open"
          /\ SinceFailure >= breaker.timeout_seconds) =>
          /\ breaker_seen.answer
          /\ breaker.state = "half-open"
    /\ breaker_seen.op = "record_success" =>
          /\ breaker.failure_count = 0
          /\ breaker.state = "closed"

(* the trial call after the timeout succeeded *)
C12_Witness ==
    /\ breaker_seen.op = "record_success"
    /\ breaker_seen.before.state = "half-open"
    /\ breaker_seen.before.failure_count = 2
    /\ breaker.state = "closed"

(* C13: record_failure on a half-open breaker opens it again and restarts  *)
(* the timeout: can_proceed answers false until timeout_seconds have       *)
(* passed since that failure.                                              *)
C13_FailedTrialReopens ==
    /\ (breaker_seen.op = "record_failure"
          /\ breaker_seen.before.state = "half-open") =>
          /\ breaker.state = "open"
          /\ breaker.last_failure_time = << breaker_seen.at >>
    /\ (Asked /\ breaker_seen.reopened /\ breaker_seen.before.state = "open") =>
          /\ breaker_seen.before.last_failure_time = << breaker_seen.failed_at >>
          /\ breaker_seen.answer <=> SinceFailure >= breaker.timeout_seconds

(* refused one second after the failed trial *)
C13_Witness ==
    /\ Asked
    /\ breaker_seen.reopened
    /\ breaker_seen.before.state = "open"
    /\ SinceFailure = 1
    /\ breaker_seen.failed_at >= breaker.timeout_seconds
    /\ ~ breaker_seen.answer

(* C14: a half-open breaker lets exactly one trial call through: after the *)
(* can_proceed that made it half-open, no can_proceed answers true before  *)
(* record_success or record_failure is called.                             *)
C14_OneTrialCall ==
    breaker_seen.trials <= 1

(* C38: for failure_threshold >= 1, whatever calls were made: a closed     *)
(* breaker has counted fewer failures than failure_threshold, an open or   *)
(* half-open one at least failure_threshold and holds the time of the      *)
(* last failure; can_proceed leaves failure_count as it was.               *)
C38_StateMatchesCount ==
    /\ breaker.state \in { "closed", "open", "half-open" }
    /\ breaker.state = "closed" =>
          breaker.failure_count < breaker.failure_threshold
    /\ breaker.state \in { "open", "half-open" } =>
          /\ breaker.failure_count >= breaker.failure_threshold
          /\ breaker.last_failure_time # NULL
    /\ Asked => breaker.failure_count = breaker_seen.before.failure_count

(* a breaker that failed its trial is asked again after the timeout and    *)
(* goes half-open with more failures counted than the threshold            *)
C38_Witness ==
    /\ Asked
    /\ breaker_seen.reopened
    /\ breaker_seen.before.state = "open"
    /\ breaker.state = "half-open"
    /\ breaker.failure_count > breaker.failure_threshold

(***************************************************************************)
(* Part 3: the Request Pacer (src/scraper/rate_limiter.py, class           *)
(* RateLimiter).  Delays are whole seconds.                                *)
(***************************************************************************)
MaxDelay == 2
MaxRpm == 1
MaxWaits == 2
MaxPauses == 2

(* the trailing window of _record_request and check_rate_limit, in seconds *)
Window == 60

Max(a, b) == IF a >= b THEN a ELSE b

(* RateLimiter.__init__; last_request_time is << >> for None *)
RateLimiter(min_delay, max_delay, requests_per_minute) ==
    [ min_delay           |-> min_delay,
      max_delay           |-> max_delay,
      requests_per_minute |-> requests_per_minute,
      request_times       |-> << >>,
      last_request_time   |-> << >> ]

(* [t for t in self.request_times if t > cutoff] *)
Newer(times, cutoff) == SelectSeq(times, LAMBDA t : t > cutoff)

(* the stretch with the sign of elapsed turned round *)
Stretched_Plus(p, t, delay) ==
    IF p.last_request_time # << >> /\ p.last_request_time[1] # 0
    THEN LET elapsed == t - p.last_request_time[1]
         IN  IF elapsed < p.min_delay
             THEN Max(delay, p.min_delay + elapsed)
             ELSE delay
    ELSE delay

(* the delay wait() sleeps, from the delay it drew *)
Stretched(p, t, delay) ==
    IF p.last_request_time # << >> /\ p.last_request_time[1] # 0
    THEN LET elapsed == t - p.last_request_time[1]
         IN  IF elapsed < p.min_delay
             THEN Max(delay, p.min_delay - elapsed)
             ELSE delay
    ELSE delay

_record_request(p, t) ==
    [ p EXCEPT !.request_times = Newer(Append(@, t), t - Window) ]

(* the cap itself is let through *)
check_rate_limit_AtCap(p, t) ==
    LET times == Newer(p.request_times, t - Window)
    IN  [ pacer  |-> [ p EXCEPT !.request_times = times ],
          result |-> Len(times) <= p.requests_per_minute ]

check_rate_limit(p, t) ==
    LET times == Newer(p.request_times, t - Window)
    IN  [ pacer  |-> [ p EXCEPT !.request_times = times ],
          result |-> Len(times) < p.requests_per_minute ]

(* RateLimiter.reset *)
pacer_reset(p) ==
    [ p EXCEPT !.request_times = << >>, !.last_request_time = << >> ]

(* what the caller has seen: the last call, the pacer before it, when the  *)
(* call began and ended, how long wait() slept, the answer of              *)
(* check_rate_limit; the times at which the wait() calls ended, all of     *)
(* them and those since the last reset; the number of pauses               *)
PacerSeen(op, before, at, done, slept, answer, completions, recorded, pauses) ==
    [ op |-> op, before |-> before, at |-> at, done |-> done,
      slept |-> slept, answer |-> answer, completions |-> completions,
      recorded |-> recorded, pauses |-> pauses ]

PacerInit ==
    /\ FreshLoader
    /\ now = 0
    /\ transformation = NULL
    /\ crawl = NULL
    /\ NoBreaker
    /\ fetch = NULL
    /\ extraction = NULL
    /\ run = NULL
    /\ \E min_delay \in 1 .. MaxDelay, max_delay \in 1 .. MaxDelay,
          requests_per_minute \in 1 .. MaxRpm :
          /\ min_delay <= max_delay
          /\ pacer = RateLimiter(min_delay, max_delay, requests_per_minute)
    /\ pacer_seen = PacerSeen("new", pacer, 0, 0, 0, FALSE, << >>, << >>, 0)

offPacer ==
    << loaderVars, breakerVars, fetch, extraction, run,
       transformation, crawl >>

(* wait() with a delay drawn from 0 .. max_delay - min_delay and no stretch *)
Wait_Short ==
    /\ pacer # NULL
    /\ Len(pacer_seen.completions) < MaxWaits
    /\ \E drawn \in 0 .. pacer.max_delay - pacer.min_delay :
          LET done == now + drawn
          IN  /\ now' = done
              /\ pacer' = _record_request(
                             [ pacer EXCEPT !.last_request_time = << done >> ],
                             done)
              /\ pacer_seen' =
                    [ pacer_seen EXCEPT
                        !.op = "wait", !.before = pacer, !.at = now,
                        !.done = done, !.slept = drawn,
                        !.completions = Append(@, done),
                        !.recorded = Append(@, done) ]
    /\ UNCHANGED offPacer

(* wait(): random.uniform(min_delay, max_delay), the stretch, time.sleep,  *)
(* last_request_time, _record_request                                      *)
Wait ==
    /\ pacer # NULL
    /\ Len(pacer_seen.completions) < MaxWaits
    /\ \E drawn \in pacer.min_delay .. pacer.max_delay :
          LET delay == Stretched(pacer, now, drawn)
              done  == now + delay
          IN  /\ now' = done
              /\ pacer' = _record_request(
                             [ pacer EXCEPT !.last_request_time = << done >> ],
                             done)
              /\ pacer_seen' =
                    [ pacer_seen EXCEPT
                        !.op = "wait", !.before = pacer, !.at = now,
                        !.done = done, !.slept = delay,
                        !.completions = Append(@, done),
                        !.recorded = Append(@, done) ]
    /\ UNCHANGED offPacer

CheckRateLimit ==
    /\ pacer # NULL
    /\ LET r == check_rate_limit(pacer, now)
       IN  /\ pacer' = r.pacer
           /\ pacer_seen' =
                 [ pacer_seen EXCEPT
                     !.op = "check_rate_limit", !.before = pacer, !.at = now,
                     !.done = now, !.answer = r.result ]
    /\ UNCHANGED << now, offPacer >>

ResetPacer ==
    /\ pacer # NULL
    /\ pacer' = pacer_reset(pacer)
    /\ pacer_seen' =
          [ pacer_seen EXCEPT
              !.op = "reset", !.before = pacer, !.at = now, !.done = now,
              !.recorded = << >> ]
    /\ UNCHANGED << now, offPacer >>

(* time passes between two calls: a second, or nearly a window *)
Pause ==
    /\ pacer # NULL
    /\ pacer_seen.pauses < MaxPauses
    /\ \E dt \in { 1, Window - 2 } : now' = now + dt
    /\ pacer_seen' = [ pacer_seen EXCEPT !.pauses = @ + 1 ]
    /\ UNCHANGED << pacer, offPacer >>

PacerNext ==
    \/ Wait
    \/ CheckRateLimit
    \/ ResetPacer
    \/ Pause

PacerSpec == PacerInit /\ [][PacerNext]_vars

(***************************************************************************)
(* Properties of the Request Pacer                                         *)
(***************************************************************************)

(* C15: on one pacer with 0 < min_delay <= max_delay, two successive       *)
(* wait() calls never end closer together than min_delay, whatever else    *)
(* happens between them.                                                   *)
C15_WaitsSpacedByMinDelay ==
    pacer # NULL =>
        \A i \in 1 .. Len(pacer_seen.completions) - 1 :
            pacer_seen.completions[i + 1] - pacer_seen.completions[i]
                >= pacer.min_delay

(* a second wait() began the moment the first one ended *)
C15_Witness ==
    /\ pacer # NULL
    /\ pacer_seen.op = "wait"
    /\ Len(pacer_seen.completions) >= 2
    /\ pacer_seen.before.last_request_time = << pacer_seen.at >>

(* C16: every wait() blocks for at least min_delay and at most max_delay,  *)
(* also when the previous call ended less than min_delay ago and the       *)
(* delay is stretched.                                                     *)
C16_SleepWithinInterval ==
    (pacer # NULL /\ pacer_seen.op = "wait") =>
        /\ pacer_seen.done - pacer_seen.at = pacer_seen.slept
        /\ pacer.min_delay <= pacer_seen.slept
        /\ pacer_seen.slept <= pacer.max_delay

(* a wait() that began less than min_delay after the one before it *)
C16_Witness ==
    /\ pacer # NULL
    /\ pacer_seen.op = "wait"
    /\ pacer_seen.before.last_request_time # << >>
    /\ pacer_seen.at > pacer_seen.before.last_request_time[1]
    /\ pacer_seen.at - pacer_seen.before.last_request_time[1] < pacer.min_delay

(* wait() calls since construction or reset that ended within the          *)
(* trailing window of the last call                                        *)
RecentWaits ==
    { i \in 1 .. Len(pacer_seen.recorded) :
        pacer_seen.recorded[i] > pacer_seen.at - Window }

(* C17: check_rate_limit() answers true exactly when fewer than            *)
(* requests_per_minute wait() calls were recorded within the trailing      *)
(* window; afterwards no recorded time is older than the window, and       *)
(* nothing but the recorded times has changed.                             *)
C17_CheckCountsWindow ==
    (pacer # NULL /\ pacer_seen.op = "check_rate_limit") =>
        /\ pacer_seen.answer <=>
              Cardinality(RecentWaits) < pacer.requests_per_minute
        /\ \A i \in 1 .. Len(pacer.request_times) :
              pacer_seen.at - pacer.request_times[i] <= Window
        /\ pacer.request_times =
              SelectSeq(pacer_seen.before.request_times,
                        LAMBDA t : pacer_seen.at - t < Window)
        /\ pacer = [ pacer_seen.before EXCEPT
                       !.request_times = pacer.request_times ]

(* a check that refuses at the cap, and purged an entry *)
C17_Witness ==
    /\ pacer # NULL
    /\ pacer_seen.op = "check_rate_limit"
    /\ ~ pacer_seen.answer
    /\ Len(pacer.request_times) < Len(pacer_seen.before.request_times)

(***************************************************************************)
(* wait_if_needed (src/scraper/rate_limiter.py): the loop                  *)
(* `while not self.check_rate_limit(): time.sleep(10)`, one step per test  *)
(* of the loop.  While the call sleeps, pacer_seen.op is "sleeping" and    *)
(* the single thread makes no other call.                                  *)
(***************************************************************************)
(* seconds of the sleep of wait_if_needed *)
NeededSleep == 10

Sleeping == pacer # NULL /\ pacer_seen.op = "sleeping"

(* the sleep ends the call whatever the window holds *)
WaitIfNeededSleep_Returns ==
    /\ Sleeping
    /\ now' = now + NeededSleep
    /\ pacer_seen' = [ pacer_seen EXCEPT
                         !.op = "wait_if_needed", !.done = now',
                         !.slept = now' - pacer_seen.at, !.answer = TRUE ]
    /\ UNCHANGED << pacer, offPacer >>

(* wait_if_needed is called: the first test of the loop *)
WaitIfNeeded ==
    /\ pacer # NULL
    /\ ~ Sleeping
    /\ LET r == check_rate_limit(pacer, now)
       IN  /\ pacer' = r.pacer
           /\ pacer_seen' =
                 [ pacer_seen EXCEPT
                     !.op = IF r.result THEN "wait_if_needed" ELSE "sleeping",
                     !.before = pacer, !.at = now, !.done = now, !.slept = 0,
                     !.answer = r.result ]
    /\ UNCHANGED << now, offPacer >>

(* time.sleep(10) returns and the loop tests again *)
WaitIfNeededSleep ==
    /\ Sleeping
    /\ now' = now + NeededSleep
    /\ LET r == check_rate_limit(pacer, now')
       IN  /\ pacer' = r.pacer
           /\ pacer_seen' =
                 [ pacer_seen EXCEPT
                     !.op = IF r.result THEN "wait_if_needed" ELSE "sleeping",
                     !.done = now', !.slept = now' - pacer_seen.at,
                     !.answer = r.result ]
    /\ UNCHANGED offPacer

(* a pacer with one delay, as in the crawl, and any cap *)
WaitIfNeededInit ==
    /\ FreshLoader
    /\ now = 0
    /\ transformation = NULL
    /\ crawl = NULL
    /\ NoBreaker
    /\ fetch = NULL
    /\ extraction = NULL
    /\ run = NULL
    /\ \E requests_per_minute \in 1 .. MaxRpm :
          pacer = RateLimiter(MaxDelay, MaxDelay, requests_per_minute)
    /\ pacer_seen = PacerSeen("new", pacer, 0, 0, 0, FALSE, << >>, << >>, 0)

WaitIfNeededNext ==
    \/ ~ Sleeping /\ Wait
    \/ ~ Sleeping /\ ResetPacer
    \/ ~ Sleeping /\ Pause
    \/ WaitIfNeeded
    \/ WaitIfNeededSleep

(* time keeps advancing: a sleep that was begun ends *)
WaitIfNeededSpec ==
    WaitIfNeededInit /\ [][WaitIfNeededNext]_vars
        /\ WF_vars(WaitIfNeededSleep)

(***************************************************************************)
(* Properties of wait_if_needed                                            *)
(***************************************************************************)
WaitIfNeededReturned == pacer # NULL /\ pacer_seen.op = "wait_if_needed"

(* wait() calls since construction or reset that ended within the          *)
(* trailing window of the moment the last call returned                    *)
RecentAtReturn ==
    { i \in 1 .. Len(pacer_seen.recorded) :
        pacer_seen.recorded[i] > pacer_seen.done - Window }

(* C40, at the return: fewer than requests_per_minute requests are         *)
(* recorded within the trailing window, and the call recorded none: the    *)
(* recorded times are those of before the call that are still in the       *)
(* window, and the time of the last request is as it was.                  *)
C40_ReturnsBelowCap ==
    WaitIfNeededReturned =>
        /\ Cardinality(RecentAtReturn) < pacer.requests_per_minute
        /\ Len(pacer.request_times) < pacer.requests_per_minute
        /\ pacer.request_times =
              SelectSeq(pacer_seen.before.request_times,
                        LAMBDA t : pacer_seen.done - t < Window)
        /\ pacer = [ pacer_seen.before EXCEPT
                       !.request_times = pacer.request_times ]

(* C40: for requests_per_minute >= 1, a wait_if_needed() call that sleeps  *)
(* returns eventually, provided time keeps advancing, and returns as       *)
(* C40_ReturnsBelowCap says.                                               *)
C40_WaitIfNeededReturns ==
    /\ [] C40_ReturnsBelowCap
    /\ Sleeping ~> WaitIfNeededReturned

(* a call that began right after a request at the cap and returned after   *)
(* six sleeps                                                              *)
C40_Witness ==
    /\ WaitIfNeededReturned
    /\ pacer_seen.before.request_times = << pacer_seen.at >>
    /\ Len(pacer_seen.before.request_times) = pacer.requests_per_minute
    /\ pacer_seen.slept = 6 * NeededSleep
    /\ pacer.request_times = << >>

(***************************************************************************)
(* Part 4: one invocation of the pipeline (scripts/run_etl.py, main) on    *)
(* the store of Part 1.  load_all runs as one step here; Part 1 has its    *)
(* steps.                                                                  *)
(***************************************************************************)
MaxRuns == 2

(* the loop of load_all over the batch from position k on; fault[k] is     *)
(* where the load of item k raises                                         *)
RECURSIVE load_items(_, _, _, _, _, _, _)
load_items(d, st, active, list, date, fault, k) ==
    IF k > Len(list)
    THEN [ db |-> d, stats |-> st, active_job_ids |-> active ]
    ELSE LET r == load_job(d, st, list[k], date, fault[k])
         IN  IF r.raised
             THEN load_items(r.db, [ r.stats EXCEPT !.errors = @ + 1 ],
                             active, list, date, fault, k + 1)
             ELSE load_items(r.db, r.stats,
                             active \cup { list[k].job_posting.job_id },
                             list, date, fault, k + 1)

(* DataLoader.load_all up to the end of the transaction block *)
load_all(d, list, date, fault) ==
    LET l == load_items(d, ZeroStats, {}, list, date, fault, 1)
        m == IF l.active_job_ids # {}
             THEN mark_expired_jobs(l.db, l.active_job_ids)
             ELSE [ db |-> l.db, expired_count |-> l.stats.jobs_expired ]
    IN  [ db    |-> update_daily_metrics(m.db, date),
          stats |-> [ l.stats EXCEPT !.jobs_expired = m.expired_count ] ]

(* where the loads of a batch can raise: at most MaxFaults of them *)
FaultPlans(list) ==
    { f \in [ DOMAIN list -> Faults ] :
        /\ Cardinality({ k \in DOMAIN list : f[k] # "none" }) <= MaxFaults
        /\ \A k \in DOMAIN list :
              f[k] = "link" => list[k].technologies # << >> }

(* DatabaseManager.record_scrape_run: the INSERT; id is AUTOINCREMENT,     *)
(* the timestamps, the duration and the message are left out               *)
record_scrape_run(d, jobs_found, jobs_new, jobs_updated, jobs_expired, status) ==
    [ d EXCEPT !.scrape_runs =
        BagAdd(@, [ id           |-> BagCardinality(@) + 1,
                    jobs_found   |-> jobs_found,
                    jobs_new     |-> jobs_new,
                    jobs_updated |-> jobs_updated,
                    jobs_expired |-> jobs_expired,
                    status       |-> status ]) ]

(* the subsequences of a list: the records a stage lets through *)
Kept(list) ==
    { SelectSeq([ i \in DOMAIN list |-> << i, list[i] >> ],
                LAMBDA p : p[1] \in keep) : keep \in SUBSET DOMAIN list }

Second(pairs) == [ i \in DOMAIN pairs |-> pairs[i][2] ]

(* the invocation: where main is, the raw jobs scraped, the records of     *)
(* the current stage, the statistics load_all returned, how main ended,    *)
(* the ScrapeRun table when main began, the invocations so far             *)
Run(at, raw_jobs, jobs, result, exit, before, runs) ==
    [ pc |-> at, raw_jobs |-> raw_jobs, jobs |-> jobs, stats |-> result,
      exit |-> exit, before |-> before, runs |-> runs ]

PipelineInit ==
    /\ FreshLoader
    /\ now = 0
    /\ transformation = NULL
    /\ crawl = NULL
    /\ NoBreaker
    /\ NoPacer
    /\ fetch = NULL
    /\ extraction = NULL
    /\ run = Run("idle", << >>, << >>, ZeroStats, "none", EmptyBag, 0)

offPipeline ==
    << now, breakerVars, pacerVars, fetch, extraction,
       transformation, crawl >>

(* the loader variables main does not reach *)
loaderFrame == << pc, batch, snapshot_date, pos, active_job_ids, failed,
                  loads, faults, outcome, pre, reloaded >>

(* main returns; finally: db.close() drops what is not committed *)
Exit(how) ==
    /\ run' = [ run EXCEPT !.pc = "idle", !.exit = how,
                           !.raw_jobs = << >>, !.jobs = << >> ]
    /\ db' = committed
    /\ UNCHANGED << committed, stats >>

(* except Exception: record_scrape_run(status='failed'), which commits;    *)
(* return 1; finally: db.close()                                           *)
Failed(d, st) ==
    /\ db' = record_scrape_run(d, 0, 0, 0, 0, "failed")
    /\ committed' = db'
    /\ stats' = st
    /\ run' = [ run EXCEPT !.pc = "idle", !.exit = "failed",
                           !.raw_jobs = << >>, !.jobs = << >> ]

(* main is invoked and opens the database *)
StartRun ==
    /\ run # NULL
    /\ run.pc = "idle"
    /\ run.runs < MaxRuns
    /\ run' = [ run EXCEPT !.pc = "scrape", !.exit = "none",
                           !.stats = ZeroStats,
                           !.before = committed.scrape_runs,
                           !.runs = @ + 1 ]
    /\ UNCHANGED << loaderVars, offPipeline >>

(* step 1: scraper.scrape_all(); if not raw_jobs: return 1 *)
Scrape ==
    /\ run # NULL
    /\ run.pc = "scrape"
    /\ \/ \E raw \in Batches :
             IF raw = << >>
             THEN Exit("no_jobs")
             ELSE /\ run' = [ run EXCEPT !.pc = "extract", !.raw_jobs = raw,
                                         !.jobs = raw ]
                  /\ UNCHANGED << db, committed, stats >>
       \/ Failed(db, stats)
    /\ UNCHANGED << loaderFrame, offPipeline >>

(* step 2: extractor.extract_batch(raw_jobs); if not extracted_jobs:       *)
(* return 1                                                                *)
Extract ==
    /\ run # NULL
    /\ run.pc = "extract"
    /\ \/ \E kept \in Kept(run.jobs) :
             IF kept = << >>
             THEN Exit("no_valid")
             ELSE /\ run' = [ run EXCEPT !.pc = "transform",
                                         !.jobs = Second(kept) ]
                  /\ UNCHANGED << db, committed, stats >>
       \/ Failed(db, stats)
    /\ UNCHANGED << loaderFrame, offPipeline >>

(* step 3: transformer.transform_batch(extracted_jobs), which skips the    *)
(* records it cannot transform                                             *)
Transform ==
    /\ run # NULL
    /\ run.pc = "transform"
    /\ \E kept \in Kept(run.jobs) :
          run' = [ run EXCEPT !.pc = "load", !.jobs = Second(kept) ]
    /\ UNCHANGED << loaderVars, offPipeline >>

(* step 4: loader.load_all(transformed_jobs, date.today()): it returns     *)
(* its statistics, or the transaction rolls back and raises                *)
Load ==
    /\ run # NULL
    /\ run.pc = "load"
    /\ \E date \in RunDates(committed) :
          LET list == [ i \in DOMAIN run.jobs |->
                          Stamp(run.jobs[i], Today(date)) ]
          IN  \E fault \in FaultPlans(list) :
                 LET r == load_all(db, list, date, fault)
                 IN  \/ /\ db' = r.db
                        /\ committed' = r.db
                        /\ stats' = r.stats
                        /\ run' = [ run EXCEPT !.pc = "record",
                                               !.stats = r.stats ]
                     \/ Failed(committed, r.stats)
    /\ UNCHANGED << loaderFrame, offPipeline >>

(* step 5: db.record_scrape_run(..., status='success') *)
RecordRun ==
    /\ run # NULL
    /\ run.pc = "record"
    /\ \/ /\ db' = record_scrape_run(db, Len(run.raw_jobs), run.stats.jobs_new,
                                     run.stats.jobs_updated,
                                     run.stats.jobs_expired, "success")
          /\ committed' = db'
          /\ run' = [ run EXCEPT !.pc = "statistics" ]
          /\ UNCHANGED stats
       \/ Failed(committed, stats)
    /\ UNCHANGED << loaderFrame, offPipeline >>

(* the three COUNT queries after the record, still inside try; return 0 *)
Statistics ==
    /\ run # NULL
    /\ run.pc = "statistics"
    /\ \/ Exit("success")
       \/ Failed(db, stats)
    /\ UNCHANGED << loaderFrame, offPipeline >>

(* except KeyboardInterrupt: return 1; finally: db.close() *)
InterruptRun ==
    /\ run # NULL
    /\ run.pc # "idle"
    /\ Exit("interrupted")
    /\ UNCHANGED << loaderFrame, offPipeline >>

PipelineNext ==
    \/ StartRun
    \/ Scrape
    \/ Extract
    \/ Transform
    \/ Load
    \/ RecordRun
    \/ Statistics
    \/ InterruptRun

PipelineSpec == PipelineInit /\ [][PipelineNext]_vars

(***************************************************************************)
(* Properties of the pipeline                                              *)
(***************************************************************************)
RunEnded == run # NULL /\ run.pc = "idle" /\ run.exit # "none"

(* the rows the invocation has appended *)
Appended == committed.scrape_runs (-) run.before

(* C18: every invocation that has opened the database ends, on every exit  *)
(* path, with exactly one ScrapeRun row appended, whose status is success, *)
(* partial or failed, and with the rows that existed before unchanged.     *)
C18_OneScrapeRunPerRun ==
    RunEnded =>
        /\ run.before \sqsubseteq committed.scrape_runs
        /\ BagCardinality(Appended) = 1
        /\ \A r \in Rows(Appended) :
              r.status \in { "success", "partial", "failed" }

(***************************************************************************)
(* Part 5: one call of NoFluffScraper._fetch_page (src/scraper/            *)
(* nofluff_scraper.py), with the calls it makes of itself.                 *)
(***************************************************************************)
MaxRetries == 2
MaxBackoff == 2

(* what session.get does: a response with a status code, or one of the     *)
(* exceptions requests.Timeout, requests.ConnectionError, or another one   *)
Status(code) == [ status_code |-> code, raised |-> "" ]
Raises(exception) == [ status_code |-> 0, raised |-> exception ]

ServerErrors == { 500, 502, 503, 504 }

Responses ==
    { Status(code) : code \in { 200, 404, 403, 429 } \cup ServerErrors }
        \cup { Raises("Timeout"), Raises("ConnectionError"), Raises("Exception") }

RECURSIVE Power(_, _)
Power(base, exponent) ==
    IF exponent = 0 THEN 1 ELSE base * Power(base, exponent - 1)

(* a delay that grows by a constant step *)
get_retry_delay_Linear(retry_backoff, attempt) == retry_backoff * attempt

(* RateLimiter.get_retry_delay: retry_backoff ** attempt *)
get_retry_delay(retry_backoff, attempt) == Power(retry_backoff, attempt)

(* seconds in the minutes of handle_rate_limit_error *)
MinuteSeconds == 60

(* the sleep before the retry that answers a response *)
RetryDelay(retry_backoff, retry_count, response) ==
    IF response = Status(429)
    THEN get_retry_delay(retry_backoff, retry_count) * MinuteSeconds
    ELSE IF response = Raises("ConnectionError")
    THEN get_retry_delay(retry_backoff, retry_count) * 2
    ELSE get_retry_delay(retry_backoff, retry_count)

(* the responses _fetch_page answers with a retry while retries are left *)
Retryable ==
    { Status(429), Raises("Timeout"), Raises("ConnectionError") }
        \cup { Status(code) : code \in ServerErrors }

(* the call: the configuration, retry_count of the innermost frame, the    *)
(* responses received, where the call is, what it returned, the delay of   *)
(* the running sleep                                                       *)
Fetch(retry_attempts, retry_backoff) ==
    [ retry_attempts |-> retry_attempts,
      retry_backoff  |-> retry_backoff,
      retry_count    |-> 0,
      responses      |-> << >>,
      pc             |-> "get",
      result         |-> "",
      delay          |-> 0 ]

FetchInit ==
    /\ FreshLoader
    /\ now = 0
    /\ transformation = NULL
    /\ crawl = NULL
    /\ NoBreaker
    /\ NoPacer
    /\ extraction = NULL
    /\ run = NULL
    /\ \E retry_attempts \in 0 .. MaxRetries, retry_backoff \in 1 .. MaxBackoff :
          fetch = Fetch(retry_attempts, retry_backoff)

offFetch ==
    << loaderVars, breakerVars, pacerVars, extraction, run,
       transformation, crawl >>

(* a retry whatever retry_count is *)
Get_AlwaysRetry ==
    /\ fetch # NULL
    /\ fetch.pc = "get"
    /\ Len(fetch.responses) <= MaxRetries + 1
    /\ \E response \in Responses :
          LET seen == [ fetch EXCEPT !.responses = Append(@, response) ]
          IN  IF response = Status(200)
              THEN fetch' = [ seen EXCEPT !.pc = "done", !.result = "text" ]
              ELSE IF response \in Retryable
              THEN fetch' = [ seen EXCEPT
                                !.pc = "sleep",
                                !.delay = RetryDelay(fetch.retry_backoff,
                                                     fetch.retry_count, response) ]
              ELSE fetch' = [ seen EXCEPT !.pc = "done", !.result = "None" ]
    /\ UNCHANGED << now, offFetch >>

(* session.get and the branch taken on its outcome *)
Get ==
    /\ fetch # NULL
    /\ fetch.pc = "get"
    /\ \E response \in Responses :
          LET seen == [ fetch EXCEPT !.responses = Append(@, response) ]
          IN  IF response = Status(200)
              THEN fetch' = [ seen EXCEPT !.pc = "done", !.result = "text" ]
              ELSE IF response \in Retryable
                      /\ fetch.retry_count < fetch.retry_attempts
              THEN fetch' = [ seen EXCEPT
                                !.pc = "sleep",
                                !.delay = RetryDelay(fetch.retry_backoff,
                                                     fetch.retry_count, response) ]
              ELSE fetch' = [ seen EXCEPT !.pc = "done", !.result = "None" ]
    /\ UNCHANGED << now, offFetch >>

(* time.sleep returns; return self._fetch_page(url, retry_count + 1) *)
Retry ==
    /\ fetch # NULL
    /\ fetch.pc = "sleep"
    /\ now' = now + fetch.delay
    /\ fetch' = [ fetch EXCEPT !.pc = "get", !.retry_count = @ + 1,
                               !.delay = 0 ]
    /\ UNCHANGED offFetch

FetchNext ==
    \/ Get
    \/ Retry

(* session.get is given a timeout and every sleep is finite, so a step     *)
(* that can be taken is taken                                              *)
FetchSpec ==
    FetchInit /\ [][FetchNext]_vars /\ WF_vars(Get) /\ WF_vars(Retry)

(***************************************************************************)
(* Properties of the fetch                                                 *)
(***************************************************************************)
FetchDone == fetch # NULL /\ fetch.pc = "done"

Requests == Len(fetch.responses)

(* C19, as far as a state shows it: a response that is 200, 404 or a       *)
(* status that is not retried ends the call where it arrives, the first    *)
(* one after one request, 200 with the body and the others with absence;   *)
(* responses that are all retryable end it with absence after              *)
(* retry_attempts + 1 requests; never more requests than that.             *)
C19_RequestsBounded ==
    fetch # NULL =>
        /\ Requests <= fetch.retry_attempts + 1
        /\ \A i \in 1 .. Requests :
              fetch.responses[i] \notin Retryable => i = Requests /\ FetchDone
        /\ FetchDone =>
              /\ fetch.result \in { "text", "None" }
              /\ fetch.result = "text" <=>
                    fetch.responses[Requests] = Status(200)
              /\ fetch.responses[Requests] \in Retryable =>
                    Requests = fetch.retry_attempts + 1

(* C19: for every URL the fetch terminates, within those requests and      *)
(* without raising.                                                        *)
C19_FetchTerminates ==
    /\ [] C19_RequestsBounded
    /\ <> FetchDone

(* every retry was used on retryable responses of three kinds *)
C19_Witness ==
    /\ FetchDone
    /\ fetch.result = "None"
    /\ fetch.retry_attempts = MaxRetries
    /\ Requests = MaxRetries + 1
    /\ \E i, j, k \in 1 .. Requests :
          /\ fetch.responses[i] = Status(429)
          /\ fetch.responses[j] = Raises("Timeout")
          /\ fetch.responses[k] = Status(503)

(* the response that the running sleep answers *)
LastResponse == fetch.responses[Requests]

(* C34: the sleep before retry number k lasts retry_backoff^k seconds      *)
(* after a server error or a timeout, twice that after a connection        *)
(* failure and sixty times that after a rate-limited response;             *)
(* get_retry_delay(0), (1), (2) are 1, 2, 4 for base 2; for a base of at   *)
(* least 1 the delay after a response of one kind never decreases from     *)
(* one retry to the next.                                                  *)
C34_RetryDelays ==
    /\ fetch # NULL /\ fetch.pc = "sleep" =>
          LET k == fetch.retry_count
              base == Power(fetch.retry_backoff, k)
          IN  /\ LastResponse \in { Status(code) : code \in ServerErrors }
                                      \cup { Raises("Timeout") } =>
                    fetch.delay = base
              /\ LastResponse = Raises("ConnectionError") =>
                    fetch.delay = 2 * base
              /\ LastResponse = Status(429) => fetch.delay = 60 * base
    /\ << get_retry_delay(2, 0), get_retry_delay(2, 1), get_retry_delay(2, 2) >>
          = << 1, 2, 4 >>
    /\ \A retry_backoff \in 1 .. MaxBackoff, k \in 0 .. MaxRetries,
          response \in Retryable :
          RetryDelay(retry_backoff, k, response)
              <= RetryDelay(retry_backoff, k + 1, response)

(* C34 as stated, whatever the responses are: the sleep before a retry is  *)
(* never shorter than the sleep before the retry that preceded it.         *)
C34_DelayNeverDecreases ==
    fetch # NULL /\ fetch.pc = "sleep" /\ Requests >= 2 =>
        RetryDelay(fetch.retry_backoff, fetch.retry_count - 1,
                   fetch.responses[Requests - 1]) <= fetch.delay

(* the second retry of a fetch with base 2 waits for a connection failure *)
C34_Witness ==
    /\ fetch # NULL
    /\ fetch.pc = "sleep"
    /\ fetch.retry_backoff = 2
    /\ fetch.retry_count = 1
    /\ LastResponse = Raises("ConnectionError")
    /\ fetch.responses[1] = Status(429)
    /\ fetch.delay = 4

(***************************************************************************)
(* Part 6: the extractor (src/etl/extractor.py).  A text is a sequence of  *)
(* characters; None is << >>, which no cleaned text equals, because        *)
(* _clean_text returns None in place of an empty text.                     *)
(***************************************************************************)
MaxText == 3
MaxRecords == 2

Alphabet == { " ", "a", "NUL" }

Texts(n) == UNION { [ 1 .. k -> Alphabet ] : k \in 0 .. n }

Http == << "h", "t", "t", "p" >>

Urls == { << >>, Http \o << ":", "/", "/", "x" >>, Http \o << "s" >>,
          << "f", "t", "p" >>, << "/", "x" >> }

RECURSIVE lstrip(_)
lstrip(text) ==
    IF text # << >> /\ Head(text) = " " THEN lstrip(Tail(text)) ELSE text

RECURSIVE rstrip(_)
rstrip(text) ==
    IF text # << >> /\ text[Len(text)] = " "
    THEN rstrip(SubSeq(text, 1, Len(text) - 1))
    ELSE text

(* re.sub(r'\s+', ' ', text) *)
RECURSIVE CollapseSpaces(_)
CollapseSpaces(text) ==
    IF Len(text) < 2 THEN text
    ELSE IF text[1] = " " /\ text[2] = " "
    THEN CollapseSpaces(Tail(text))
    ELSE << text[1] >> \o CollapseSpaces(Tail(text))

(* _clean_text: strip, collapse the whitespace, remove the null bytes;     *)
(* None for an empty result                                                *)
_clean_text(text) ==
    IF text = << >> THEN NULL
    ELSE SelectSeq(CollapseSpaces(rstrip(lstrip(text))),
                   LAMBDA c : c # "NUL")

(* url.startswith('http') *)
startswith(text, prefix) ==
    Len(text) >= Len(prefix) /\ SubSeq(text, 1, Len(prefix)) = prefix

RawJob(job_id, title, company_name, url) ==
    [ job_id |-> job_id, title |-> title, company_name |-> company_name,
      url |-> url, location |-> << "x" >>, salary |-> << "1" >>,
      technologies |-> << << "a" >> >> ]

(* raw records that differ from a valid one in one field *)
RawJobs ==
    { RawJob(job_id, << "a", "a", "a" >>, << "a", "a" >>, Http) :
        job_id \in { << >>, << "1" >>, << "2" >> } }
    \cup { RawJob(<< "1" >>, title, << "a", "a" >>, Http) :
             title \in Texts(MaxText) }
    \cup { RawJob(<< "1" >>, << "a", "a", "a" >>, company_name, Http) :
             company_name \in Texts(MaxText - 1) }
    \cup { RawJob(<< "1" >>, << "a", "a", "a" >>, << "a", "a" >>, url) :
             url \in Urls }

(* validate_required_fields: every required field present and truthy *)
validate_required_fields(data) ==
    /\ data.job_id # << >>
    /\ data.title # << >>
    /\ data.company_name # << >>
    /\ data.url # << >>

(* extract_job_data: None, or the four parts *)
extract_job_data(raw_data) ==
    IF ~ validate_required_fields(raw_data) THEN NULL
    ELSE [ job_posting  |-> [ job_id       |-> raw_data.job_id,
                              title        |-> _clean_text(raw_data.title),
                              company_name |-> _clean_text(raw_data.company_name),
                              url          |-> raw_data.url ],
           snapshot     |-> [ location |-> raw_data.location ],
           salary       |-> [ salary_text |-> raw_data.salary ],
           technologies |-> raw_data.technologies ]

(* validate_job_data: its answer, or the TypeError of len(None) *)
validate_job_data(data) ==
    LET job_posting == data.job_posting
        title   == job_posting.title
        company == job_posting.company_name
    IN  IF job_posting.job_id = << >>
        THEN [ raised |-> FALSE, result |-> FALSE ]
        ELSE IF title = NULL
        THEN [ raised |-> TRUE, result |-> FALSE ]
        ELSE IF Len(title) < 3
        THEN [ raised |-> FALSE, result |-> FALSE ]
        ELSE IF company = NULL
        THEN [ raised |-> TRUE, result |-> FALSE ]
        ELSE IF Len(company) < 2
        THEN [ raised |-> FALSE, result |-> FALSE ]
        ELSE [ raised |-> FALSE,
               result |-> startswith(job_posting.url, Http) ]

(* the loop of extract_batch from position k on *)
RECURSIVE extract_from(_, _, _)
extract_from(raw_data_list, extracted_jobs, k) ==
    IF k > Len(raw_data_list)
    THEN [ raised |-> FALSE, extracted_jobs |-> extracted_jobs ]
    ELSE LET extracted == extract_job_data(raw_data_list[k])
         IN  IF extracted = NULL
             THEN extract_from(raw_data_list, extracted_jobs, k + 1)
             ELSE LET valid == validate_job_data(extracted)
                  IN  IF valid.raised
                      THEN [ raised |-> TRUE, extracted_jobs |-> << >> ]
                      ELSE extract_from(
                              raw_data_list,
                              IF valid.result
                              THEN Append(extracted_jobs, extracted)
                              ELSE extracted_jobs,
                              k + 1)

extract_batch(raw_data_list) == extract_from(raw_data_list, << >>, 1)

ExtractorInit ==
    /\ FreshLoader
    /\ now = 0
    /\ transformation = NULL
    /\ crawl = NULL
    /\ NoBreaker
    /\ NoPacer
    /\ fetch = NULL
    /\ run = NULL
    /\ \E n \in 0 .. MaxRecords :
          \E raw_data_list \in [ 1 .. n -> RawJobs ] :
             extraction = [ raw_data_list  |-> raw_data_list,
                            pc             |-> "called",
                            raised         |-> FALSE,
                            extracted_jobs |-> << >> ]

offExtractor ==
    << loaderVars, now, breakerVars, pacerVars, fetch, run,
       transformation, crawl >>

(* extract_batch(raw_data_list) returns or raises *)
ExtractBatch ==
    /\ extraction # NULL
    /\ extraction.pc = "called"
    /\ LET r == extract_batch(extraction.raw_data_list)
       IN  extraction' = [ extraction EXCEPT
                             !.pc = "done",
                             !.raised = r.raised,
                             !.extracted_jobs = r.extracted_jobs ]
    /\ UNCHANGED offExtractor

ExtractorNext == ExtractBatch

ExtractorSpec == ExtractorInit /\ [][ExtractorNext]_vars

(***************************************************************************)
(* Properties of the extractor                                             *)
(***************************************************************************)
(* the records the validation rules accept *)
IsValidRaw(raw_data) ==
    /\ raw_data.job_id # << >>
    /\ raw_data.title # << >>
    /\ raw_data.company_name # << >>
    /\ raw_data.url # << >>
    /\ Len(_clean_text(raw_data.title)) >= 3
    /\ Len(_clean_text(raw_data.company_name)) >= 2
    /\ startswith(raw_data.url, Http)

(* C20: extract_batch returns, in input order, exactly the records whose   *)
(* external id, title, company and URL are present and non-empty, whose    *)
(* normalized title has at least 3 characters, whose normalized company    *)
(* name has at least 2 and whose URL starts with 'http'; each returned     *)
(* record has the parts posting, snapshot, raw salary text and raw         *)
(* technology list.                                                        *)
C20_ReturnsTheValidRecords ==
    (extraction # NULL /\ extraction.pc = "done") =>
        LET valid == SelectSeq(extraction.raw_data_list, IsValidRaw)
        IN  /\ ~ extraction.raised
            /\ Len(extraction.extracted_jobs) = Len(valid)
            /\ \A i \in 1 .. Len(valid) :
                  LET job == extraction.extracted_jobs[i]
                  IN  /\ DOMAIN job = { "job_posting", "snapshot", "salary",
                                        "technologies" }
                      /\ job.job_posting.job_id = valid[i].job_id
                      /\ job.job_posting.url = valid[i].url
                      /\ job.job_posting.title = _clean_text(valid[i].title)
                      /\ job.job_posting.company_name =
                            _clean_text(valid[i].company_name)
                      /\ job.salary.salary_text = valid[i].salary
                      /\ job.technologies = valid[i].technologies

(* the outcome of extracting record i of the batch by itself *)
Alone(i) == extract_batch(<< extraction.raw_data_list[i] >>)

RECURSIVE EachAlone(_)
EachAlone(n) ==
    IF n = 0 THEN << >>
    ELSE EachAlone(n - 1) \o Alone(n).extracted_jobs

(* C21: extract_batch never raises, whatever the input sequence; a record  *)
(* whose required fields are missing, empty or whitespace is rejected      *)
(* alone, and every other record is accepted or rejected as it is when     *)
(* extracted by itself.                                                    *)
C21_RejectsAloneNeverRaises ==
    (extraction # NULL /\ extraction.pc = "done") =>
        /\ ~ extraction.raised
        /\ \A i \in DOMAIN extraction.raw_data_list : ~ Alone(i).raised
        /\ extraction.extracted_jobs =
              EachAlone(Len(extraction.raw_data_list))

(***************************************************************************)
(* Part 7: the transformer (src/etl/transformer.py).  A text is a sequence *)
(* of characters, a character outside ASCII is written by a name of its    *)
(* own ("EURO", "NBSP", "l/" for the Polish l with a stroke), and None is  *)
(* << >>.                                                                  *)
(***************************************************************************)
MaxSegments == 2

(* str.lower, on the capital letters *)
LowerCase ==
    "A" :> "a" @@ "B" :> "b" @@ "C" :> "c" @@ "D" :> "d" @@ "E" :> "e" @@
    "F" :> "f" @@ "G" :> "g" @@ "H" :> "h" @@ "I" :> "i" @@ "J" :> "j" @@
    "K" :> "k" @@ "L" :> "l" @@ "M" :> "m" @@ "N" :> "n" @@ "O" :> "o" @@
    "P" :> "p" @@ "Q" :> "q" @@ "R" :> "r" @@ "S" :> "s" @@ "T" :> "t" @@
    "U" :> "u" @@ "V" :> "v" @@ "W" :> "w" @@ "X" :> "x" @@ "Y" :> "y" @@
    "Z" :> "z" @@ "L/" :> "l/" @@ "O'" :> "o'" @@ "N'" :> "n'" @@
    "S'" :> "s'" @@ "Z'" :> "z'" @@ "Z." :> "z." @@ "C'" :> "c'" @@
    "E~" :> "e~" @@ "A~" :> "a~"

lower(text) ==
    [ i \in DOMAIN text |->
        IF text[i] \in DOMAIN LowerCase THEN LowerCase[text[i]] ELSE text[i] ]

(* sub in text *)
Contains(text, sub) ==
    \E i \in 0 .. Len(text) - Len(sub) :
       SubSeq(text, i + 1, i + Len(sub)) = sub

(* the texts made of at most n of the segments *)
RECURSIVE Concatenations(_, _)
Concatenations(segments, n) ==
    IF n = 0 THEN { << >> }
    ELSE LET shorter == Concatenations(segments, n - 1)
         IN  shorter \cup { text \o segment :
                              text \in shorter, segment \in segments }

DigitValue ==
    "0" :> 0 @@ "1" :> 1 @@ "2" :> 2 @@ "3" :> 3 @@ "4" :> 4 @@ "5" :> 5
    @@ "6" :> 6 @@ "7" :> 7 @@ "8" :> 8 @@ "9" :> 9

IsDigit(c) == c \in DOMAIN DigitValue

(* int() of a run of digits *)
RECURSIVE int(_)
int(digits) ==
    IF digits = << >> THEN 0
    ELSE int(SubSeq(digits, 1, Len(digits) - 1)) * 10
            + DigitValue[digits[Len(digits)]]

(* re.findall(r'\d+', text): the maximal runs of digits, left to right;    *)
(* current is the run that ends where the text begins                      *)
RECURSIVE findall_digits(_, _)
findall_digits(text, current) ==
    IF text = << >>
    THEN IF current = << >> THEN << >> ELSE << current >>
    ELSE IF IsDigit(Head(text))
    THEN findall_digits(Tail(text), Append(current, Head(text)))
    ELSE IF current = << >>
    THEN findall_digits(Tail(text), << >>)
    ELSE << current >> \o findall_digits(Tail(text), << >>)

(* salary_text.replace(' ', '').replace('\xa0', '') *)
RemoveSpaces(text) == SelectSeq(text, LAMBDA c : c \notin { " ", "NBSP" })

HasCurrencyEUR(cleaned) ==
    Contains(cleaned, << "E", "U", "R" >>) \/ Contains(cleaned, << "EURO" >>)

HasCurrencyUSD(cleaned) ==
    Contains(cleaned, << "U", "S", "D" >>) \/ Contains(cleaned, << "$" >>)

IsHourly(cleaned) ==
    \/ Contains(cleaned, << "/", "h" >>)
    \/ Contains(lower(cleaned), << "g", "o", "d", "z" >>)
    \/ Contains(lower(cleaned), << "h", "o", "u", "r" >>)

IsAnnual(cleaned) ==
    \/ Contains(cleaned, << "/", "r", "o", "k" >>)
    \/ Contains(lower(cleaned), << "a", "n", "n", "u", "a", "l" >>)
    \/ Contains(lower(cleaned), << "y", "e", "a", "r", "l", "y" >>)

IsB2B(cleaned) ==
    \E word \in { << "b", "2", "b" >>,
                  << "n", "e", "t", "t", "o" >>,
                  << "n", "e", "t" >> } :
       Contains(lower(cleaned), word)

(* the dictionary normalize_salary builds from the numbers found; the      *)
(* floats are exact: whole numbers, and the average a fraction             *)
SalaryOf(cleaned, numbers) ==
    LET first  == int(numbers[1])
        second == int(numbers[2])
        salary_min == IF first > second THEN second ELSE first
        salary_max == IF first > second THEN first ELSE second
    IN  [ salary_min |-> salary_min,
          salary_max |-> salary_max,
          salary_avg |-> Fraction(salary_min + salary_max, 2),
          currency   |-> IF HasCurrencyEUR(cleaned) THEN "EUR"
                         ELSE IF HasCurrencyUSD(cleaned) THEN "USD"
                         ELSE "PLN",
          period     |-> IF IsHourly(cleaned) THEN "hourly"
                         ELSE IF IsAnnual(cleaned) THEN "annual"
                         ELSE "monthly",
          is_b2b     |-> IsB2B(cleaned) ]

(* normalize_salary that keeps the two numbers in the order found *)
normalize_salary_NoSwap(salary_text) ==
    IF salary_text = << >> THEN NULL
    ELSE LET cleaned == RemoveSpaces(salary_text)
             numbers == findall_digits(cleaned, << >>)
         IN  IF Len(numbers) = 0 THEN NULL
             ELSE IF Len(numbers) = 1
             THEN << SalaryOf(cleaned, << numbers[1], numbers[1] >>) >>
             ELSE << [ SalaryOf(cleaned, numbers) EXCEPT
                         !.salary_min = int(numbers[1]),
                         !.salary_max = int(numbers[2]) ] >>

(* normalize_salary: None, or << the dictionary >> *)
normalize_salary(salary_text) ==
    IF salary_text = << >> THEN NULL
    ELSE LET cleaned == RemoveSpaces(salary_text)
             numbers == findall_digits(cleaned, << >>)
         IN  IF Len(numbers) = 0 THEN NULL
             ELSE IF Len(numbers) = 1
             THEN << SalaryOf(cleaned, << numbers[1], numbers[1] >>) >>
             ELSE << SalaryOf(cleaned, numbers) >>

SalarySegments ==
    { << "2", "0", " ", "-", " " >>, << "2", "0", "-", "1", "5" >>,
      << "8", " ", "0", "-" >>, << "1", "5" >>,
      << "NBSP", "1", "5", " ", "P", "L", "N" >>, << "E", "U", "R" >>,
      << "EURO" >>, << "U", "S", "D", "/", "h" >>, << "$" >>,
      << "g", "o", "d", "z" >>, << "/", "r", "o", "k" >>,
      << "B", "2", "B" >>, << "n", "e", "t" >>, << "o", "d", " " >> }

SalaryTexts == Concatenations(SalarySegments, MaxSegments)

(* CITY_TO_REGION, in the order of the dictionary *)
CITY_TO_REGION ==
    << << << "W", "a", "r", "s", "z", "a", "w", "a" >>,
         << "M", "a", "z", "o", "w", "i", "e", "c", "k", "i", "e" >> >>,
       << << "K", "r", "a", "k", "o'", "w" >>,
         << "M", "a", "l/", "o", "p", "o", "l", "s", "k", "i", "e" >> >>,
       << << "W", "r", "o", "c", "l/", "a", "w" >>,
         << "D", "o", "l", "n", "o", "s'", "l", "a~", "s", "k", "i",
            "e" >> >>,
       << << "P", "o", "z", "n", "a", "n'" >>,
         << "W", "i", "e", "l", "k", "o", "p", "o", "l", "s", "k", "i",
            "e" >> >>,
       << << "G", "d", "a", "n'", "s", "k" >>,
         << "P", "o", "m", "o", "r", "s", "k", "i", "e" >> >>,
       << << "G", "d", "y", "n", "i", "a" >>,
         << "P", "o", "m", "o", "r", "s", "k", "i", "e" >> >>,
       << << "S", "o", "p", "o", "t" >>,
         << "P", "o", "m", "o", "r", "s", "k", "i", "e" >> >>,
       << << "S", "z", "c", "z", "e", "c", "i", "n" >>,
         << "Z", "a", "c", "h", "o", "d", "n", "i", "o", "p", "o", "m",
            "o", "r", "s", "k", "i", "e" >> >>,
       << << "L/", "o'", "d", "z'" >>,
         << "L/", "o'", "d", "z", "k", "i", "e" >> >>,
       << << "K", "a", "t", "o", "w", "i", "c", "e" >>,
         << "S'", "l", "a~", "s", "k", "i", "e" >> >>,
       << << "G", "l", "i", "w", "i", "c", "e" >>,
         << "S'", "l", "a~", "s", "k", "i", "e" >> >>,
       << << "B", "y", "d", "g", "o", "s", "z", "c", "z" >>,
         << "K", "u", "j", "a", "w", "s", "k", "o", "-", "p", "o", "m",
            "o", "r", "s", "k", "i", "e" >> >>,
       << << "L", "u", "b", "l", "i", "n" >>,
         << "L", "u", "b", "e", "l", "s", "k", "i", "e" >> >>,
       << << "B", "i", "a", "l/", "y", "s", "t", "o", "k" >>,
         << "P", "o", "d", "l", "a", "s", "k", "i", "e" >> >>,
       << << "R", "z", "e", "s", "z", "o'", "w" >>,
         << "P", "o", "d", "k", "a", "r", "p", "a", "c", "k", "i", "e" >> >>,
       << << "T", "o", "r", "u", "n'" >>,
         << "K", "u", "j", "a", "w", "s", "k", "o", "-", "p", "o", "m",
            "o", "r", "s", "k", "i", "e" >> >> >>

remote_keywords ==
    { << "z", "d", "a", "l", "n", "a" >>,
      << "r", "e", "m", "o", "t", "e" >>,
      << "z", "d", "a", "l", "n", "i", "e" >>,
      << "p", "r", "a", "c", "a", " ", "z", "d", "a", "l", "n", "a" >>,
      << "r", "e", "m", "o", "t", "e", "l", "y" >> }

IsRemote(location_lower) ==
    \E keyword \in remote_keywords : Contains(location_lower, keyword)

(* the positions of CITY_TO_REGION whose city occurs in the text *)
CitiesIn(location_lower) ==
    { k \in DOMAIN CITY_TO_REGION :
        Contains(location_lower, lower(CITY_TO_REGION[k][1])) }

Min(S) == CHOOSE x \in S : \A y \in S : x <= y

Location(location_type, city, region) ==
    [ location_type |-> location_type, city |-> city, region |-> region,
      country |-> "Poland" ]

(* standardize_location where a remote keyword hides the city *)
standardize_location_RemoteWins(location_text) ==
    IF location_text = << >> THEN Location(NULL, NULL, NULL)
    ELSE LET location_lower == lower(location_text)
             found == CitiesIn(location_lower)
         IN  IF IsRemote(location_lower)
             THEN Location("remote", NULL, NULL)
             ELSE IF found # {}
             THEN Location("office", CITY_TO_REGION[Min(found)][1],
                           CITY_TO_REGION[Min(found)][2])
             ELSE Location(NULL, NULL, NULL)

(* standardize_location: the first city of the table that occurs in the    *)
(* text, and the type                                                      *)
standardize_location(location_text) ==
    IF location_text = << >> THEN Location(NULL, NULL, NULL)
    ELSE LET location_lower == lower(location_text)
             is_remote == IsRemote(location_lower)
             found == CitiesIn(location_lower)
             city   == IF found # {} THEN CITY_TO_REGION[Min(found)][1] ELSE NULL
             region == IF found # {} THEN CITY_TO_REGION[Min(found)][2] ELSE NULL
         IN  IF is_remote /\ city # NULL THEN Location("hybrid", city, region)
             ELSE IF is_remote THEN Location("remote", city, region)
             ELSE IF city # NULL THEN Location("office", city, region)
             ELSE Location(NULL, city, region)

LocationSegments ==
    { << "W", "a", "r", "s", "z", "a", "w", "a", " ", "/", " " >>,
      << "Z", "d", "a", "l", "n", "i", "e" >>,
      << "P", "r", "a", "c", "a", " ", "z", "d", "a", "l", "n", "a" >>,
      << "K", "R", "A", "K", "O'", "W" >>, << "L/", "o'", "d", "z'" >>,
      << "G", "d", "y" >>, << "n", "i", "a" >>,
      << "B", "e", "r", "l", "i", "n" >>,
      << "R", "e", "m", "o", "t", "e" >> }

LocationTexts == Concatenations(LocationSegments, MaxSegments)

(* TECHNOLOGY_CATEGORIES, in the order of the dictionary: each category    *)
(* with its list                                                           *)
TECHNOLOGY_CATEGORIES ==
    << << "language",
         << << "P", "y", "t", "h", "o", "n" >>, << "J", "a", "v", "a" >>,
            << "J", "a", "v", "a", "S", "c", "r", "i", "p", "t" >>,
            << "T", "y", "p", "e", "S", "c", "r", "i", "p", "t" >>,
            << "C", "#" >>, << "C", "+", "+" >>, << "G", "o" >>,
            << "R", "u", "s", "t" >>, << "R", "u", "b", "y" >>,
            << "P", "H", "P" >>, << "S", "w", "i", "f", "t" >>,
            << "K", "o", "t", "l", "i", "n" >>,
            << "S", "c", "a", "l", "a" >>, << "R" >>,
            << "J", "u", "l", "i", "a" >> >> >>,
       << "framework",
         << << "R", "e", "a", "c", "t" >>,
            << "A", "n", "g", "u", "l", "a", "r" >>, << "V", "u", "e" >>,
            << "D", "j", "a", "n", "g", "o" >>,
            << "F", "l", "a", "s", "k" >>,
            << "F", "a", "s", "t", "A", "P", "I" >>,
            << "S", "p", "r", "i", "n", "g" >>,
            << "N", "o", "d", "e", ".", "j", "s" >>,
            << "E", "x", "p", "r", "e", "s", "s" >>,
            << ".", "N", "E", "T" >>,
            << "A", "S", "P", ".", "N", "E", "T" >>,
            << "L", "a", "r", "a", "v", "e", "l" >>,
            << "R", "a", "i", "l", "s" >>,
            << "S", "y", "m", "f", "o", "n", "y" >>,
            << "N", "e", "x", "t", ".", "j", "s" >>,
            << "N", "u", "x", "t", ".", "j", "s" >>,
            << "S", "v", "e", "l", "t", "e" >> >> >>,
       << "database",
         << << "P", "o", "s", "t", "g", "r", "e", "S", "Q", "L" >>,
            << "M", "y", "S", "Q", "L" >>,
            << "M", "o", "n", "g", "o", "D", "B" >>,
            << "R", "e", "d", "i", "s" >>,
            << "E", "l", "a", "s", "t", "i", "c", "s", "e", "a", "r", "c",
               "h" >>,
            << "O", "r", "a", "c", "l", "e" >>,
            << "S", "Q", "L", " ", "S", "e", "r", "v", "e", "r" >>,
            << "C", "a", "s", "s", "a", "n", "d", "r", "a" >>,
            << "D", "y", "n", "a", "m", "o", "D", "B" >>,
            << "M", "a", "r", "i", "a", "D", "B" >>,
            << "S", "Q", "L", "i", "t", "e" >>,
            << "N", "e", "o", "4", "j" >>,
            << "C", "o", "u", "c", "h", "D", "B" >> >> >>,
       << "cloud",
         << << "A", "W", "S" >>, << "A", "z", "u", "r", "e" >>,
            << "G", "C", "P" >>,
            << "G", "o", "o", "g", "l", "e", " ", "C", "l", "o", "u", "d" >>,
            << "H", "e", "r", "o", "k", "u" >>,
            << "D", "i", "g", "i", "t", "a", "l", "O", "c", "e", "a", "n" >>,
            << "L", "i", "n", "o", "d", "e" >>,
            << "C", "l", "o", "u", "d", "f", "l", "a", "r", "e" >> >> >>,
       << "tool",
         << << "D", "o", "c", "k", "e", "r" >>,
            << "K", "u", "b", "e", "r", "n", "e", "t", "e", "s" >>,
            << "G", "i", "t" >>, << "J", "e", "n", "k", "i", "n", "s" >>,
            << "G", "i", "t", "L", "a", "b" >>,
            << "G", "i", "t", "H", "u", "b" >>,
            << "T", "e", "r", "r", "a", "f", "o", "r", "m" >>,
            << "A", "n", "s", "i", "b", "l", "e" >>,
            << "V", "a", "g", "r", "a", "n", "t" >>,
            << "C", "I", "/", "C", "D" >>, << "J", "i", "r", "a" >>,
            << "C", "o", "n", "f", "l", "u", "e", "n", "c", "e" >> >> >> >>

(* the entries in the order the two loops visit them *)
CatalogEntries ==
    UNION { { << c, k >> : k \in 1 .. Len(TECHNOLOGY_CATEGORIES[c][2]) } :
            c \in DOMAIN TECHNOLOGY_CATEGORIES }

Entry(e) == TECHNOLOGY_CATEGORIES[e[1]][2][e[2]]

Before(e, f) == e[1] < f[1] \/ (e[1] = f[1] /\ e[2] < f[2])

(* the first entry of a non-empty set of entries *)
FirstEntry(S) == CHOOSE e \in S : \A f \in S : f = e \/ Before(e, f)

(* categorize_technology in one pass: equal or contained, whichever entry  *)
(* comes first                                                             *)
categorize_technology_OnePass(tech_name) ==
    LET tech_lower == lower(tech_name)
        hit == { e \in CatalogEntries :
                   \/ lower(Entry(e)) = tech_lower
                   \/ Contains(tech_lower, lower(Entry(e))) }
    IN  IF hit # {} THEN TECHNOLOGY_CATEGORIES[FirstEntry(hit)[1]][1]
        ELSE "other"

(* categorize_technology: the pass for equality, then the pass for         *)
(* containment                                                             *)
categorize_technology(tech_name) ==
    LET tech_lower == lower(tech_name)
        exact == { e \in CatalogEntries : lower(Entry(e)) = tech_lower }
        contained == { e \in CatalogEntries :
                         Contains(tech_lower, lower(Entry(e))) }
    IN  IF exact # {} THEN TECHNOLOGY_CATEGORIES[FirstEntry(exact)[1]][1]
        ELSE IF contained # {}
        THEN TECHNOLOGY_CATEGORIES[FirstEntry(contained)[1]][1]
        ELSE "other"

TechnologySegments ==
    { << "P", "y", "t", "h", "o", "n" >>,
      << "p", "y", "t", "h", "o", "n" >>, << "J", "a", "v", "a" >>,
      << "S", "c", "r", "i", "p", "t" >>, << "S", "Q", "L" >>,
      << " ", "S", "e", "r", "v", "e", "r" >>, << "G", "i", "t" >>,
      << "H", "u", "b" >>, << "D", "o", "c", "k", "e", "r" >>,
      << "A", "W", "S" >>, << "X" >>, << "." >> }

TechnologyNames == Concatenations(TechnologySegments, MaxSegments) \ { << >> }

(* a call of the transformer: the function, its argument, and its result   *)
(* once it has returned                                                    *)
Call(fn, arg) == [ fn |-> fn, arg |-> arg, pc |-> "called", result |-> NULL ]

TransformerInit ==
    /\ FreshLoader
    /\ now = 0
    /\ crawl = NULL
    /\ NoBreaker
    /\ NoPacer
    /\ fetch = NULL
    /\ extraction = NULL
    /\ run = NULL
    /\ \/ \E salary_text \in SalaryTexts :
             transformation = Call("normalize_salary", salary_text)
       \/ \E location_text \in LocationTexts :
             transformation = Call("standardize_location", location_text)
       \/ \E tech_name \in TechnologyNames :
             transformation = Call("categorize_technology", tech_name)

offTransformer ==
    << loaderVars, now, breakerVars, pacerVars, fetch, extraction, run, crawl >>

NormalizeSalary ==
    /\ transformation # NULL
    /\ transformation.pc = "called"
    /\ transformation.fn = "normalize_salary"
    /\ transformation' =
          [ transformation EXCEPT
              !.pc = "done", !.result = normalize_salary(transformation.arg) ]
    /\ UNCHANGED offTransformer

StandardizeLocation ==
    /\ transformation # NULL
    /\ transformation.pc = "called"
    /\ transformation.fn = "standardize_location"
    /\ transformation' =
          [ transformation EXCEPT
              !.pc = "done", !.result = standardize_location(transformation.arg) ]
    /\ UNCHANGED offTransformer

CategorizeTechnology ==
    /\ transformation # NULL
    /\ transformation.pc = "called"
    /\ transformation.fn = "categorize_technology"
    /\ transformation' =
          [ transformation EXCEPT
              !.pc = "done", !.result = categorize_technology(transformation.arg) ]
    /\ UNCHANGED offTransformer

TransformerNext ==
    \/ NormalizeSalary
    \/ StandardizeLocation
    \/ CategorizeTechnology

TransformerSpec == TransformerInit /\ [][TransformerNext]_vars

(***************************************************************************)
(* Properties of the transformer                                           *)
(***************************************************************************)
Normalized ==
    /\ transformation # NULL
    /\ transformation.pc = "done"
    /\ transformation.fn = "normalize_salary"

(* the integers embedded in the salary text, separators removed *)
Embedded == findall_digits(RemoveSpaces(transformation.arg), << >>)

(* C22: for a salary text with two or more embedded integers,              *)
(* normalize_salary returns the first two as min and max, ordered so that  *)
(* min <= max, with average (min + max) / 2, hence between them; without   *)
(* a marker the currency is PLN, the period monthly and the B2B flag       *)
(* false.                                                                  *)
C22_PairBecomesRange ==
    (Normalized /\ Len(Embedded) >= 2) =>
        /\ transformation.result # NULL
        /\ LET salary == transformation.result[1]
               first  == int(Embedded[1])
               second == int(Embedded[2])
               cleaned == RemoveSpaces(transformation.arg)
           IN  /\ { salary.salary_min, salary.salary_max } = { first, second }
               /\ salary.salary_min <= salary.salary_max
               /\ salary.salary_avg =
                     Fraction(salary.salary_min + salary.salary_max, 2)
               /\ salary.salary_min * salary.salary_avg[2] <= salary.salary_avg[1]
               /\ salary.salary_avg[1] <= salary.salary_max * salary.salary_avg[2]
               /\ (~ HasCurrencyEUR(cleaned) /\ ~ HasCurrencyUSD(cleaned))
                     => salary.currency = "PLN"
               /\ (~ IsHourly(cleaned) /\ ~ IsAnnual(cleaned))
                     => salary.period = "monthly"
               /\ ~ IsB2B(cleaned) => ~ salary.is_b2b

(* '20 - 15': the two numbers are swapped, and their mean is no whole      *)
(* number                                                                  *)
C22_Witness ==
    /\ Normalized
    /\ Len(Embedded) = 2
    /\ int(Embedded[1]) > int(Embedded[2])
    /\ transformation.result # NULL
    /\ transformation.result[1].salary_avg[2] = 2
    /\ transformation.result[1].currency = "PLN"
    /\ ~ transformation.result[1].is_b2b

(* C23: normalize_salary returns no salary, without raising, for every     *)
(* text with no embedded number and for every text with exactly one        *)
(* embedded number and no currency marker; it builds no result from a      *)
(* single number.                                                          *)
C23_SingleNumberIsNoSalary ==
    (Normalized /\ Len(Embedded) < 2) =>
        LET cleaned == RemoveSpaces(transformation.arg)
        IN  (Len(Embedded) = 0
               \/ ~ (HasCurrencyEUR(cleaned) \/ HasCurrencyUSD(cleaned)
                       \/ Contains(cleaned, << "P", "L", "N" >>)))
            => transformation.result = NULL

Standardized ==
    /\ transformation # NULL
    /\ transformation.pc = "done"
    /\ transformation.fn = "standardize_location"

(* a remote keyword occurs in the text, whatever the case of its letters *)
HasRemoteKeyword == IsRemote(lower(transformation.arg))

(* the cities of the table that occur in the text *)
RecognizedCities ==
    { CITY_TO_REGION[k] : k \in CitiesIn(lower(transformation.arg)) }

(* C24: standardize_location gives hybrid for a remote keyword with a      *)
(* recognized city, remote with neither city nor region for a remote       *)
(* keyword alone, office for a recognized city alone, and neither type     *)
(* nor city nor region otherwise, the empty text included; city and region *)
(* are both null or a pair of the city-to-region table.                    *)
C24_LocationPolicy ==
    Standardized =>
        LET location == transformation.result
            pair == << location.city, location.region >>
        IN  /\ (HasRemoteKeyword /\ RecognizedCities # {})
                  => location.location_type = "hybrid" /\ pair \in RecognizedCities
            /\ (HasRemoteKeyword /\ RecognizedCities = {})
                  => location.location_type = "remote" /\ pair = << NULL, NULL >>
            /\ (~ HasRemoteKeyword /\ RecognizedCities # {})
                  => location.location_type = "office" /\ pair \in RecognizedCities
            /\ (~ HasRemoteKeyword /\ RecognizedCities = {})
                  => location.location_type = NULL /\ pair = << NULL, NULL >>
            /\ \/ pair = << NULL, NULL >>
               \/ \E k \in DOMAIN CITY_TO_REGION : pair = CITY_TO_REGION[k]

(* 'Warszawa / Zdalnie' *)
C24_Witness ==
    /\ Standardized
    /\ transformation.arg =
          << "W", "a", "r", "s", "z", "a", "w", "a", " ", "/", " ",
             "Z", "d", "a", "l", "n", "i", "e" >>
    /\ transformation.result.location_type = "hybrid"
    /\ transformation.result.city = CITY_TO_REGION[1][1]
    /\ transformation.result.region = CITY_TO_REGION[1][2]

Categorized ==
    /\ transformation # NULL
    /\ transformation.pc = "done"
    /\ transformation.fn = "categorize_technology"

(* the categories of the catalog entries that equal the name, and of       *)
(* those the name contains, letter case aside                              *)
EqualCategories ==
    { TECHNOLOGY_CATEGORIES[e[1]][1] :
        e \in { f \in CatalogEntries :
                  lower(Entry(f)) = lower(transformation.arg) } }

ContainedCategories ==
    { TECHNOLOGY_CATEGORIES[e[1]][1] :
        e \in { f \in CatalogEntries :
                  Contains(lower(transformation.arg), lower(Entry(f))) } }

(* C25: categorize_technology returns the category of the catalog entry    *)
(* that equals the name case-insensitively whenever there is one, whatever *)
(* entries of other categories the name contains; the category of an       *)
(* entry contained in the name only when no entry is equal; and 'other'    *)
(* when no entry is equal or contained.                                    *)
C25_ExactBeforeSubstring ==
    Categorized =>
        /\ EqualCategories # {} => transformation.result \in EqualCategories
        /\ (EqualCategories = {} /\ ContainedCategories # {})
              => transformation.result \in ContainedCategories
        /\ (EqualCategories = {} /\ ContainedCategories = {})
              => transformation.result = "other"

(* 'SQL Server' equals a database entry and contains the language 'R' *)
C25_Witness ==
    /\ Categorized
    /\ transformation.result = "database"
    /\ EqualCategories = { "database" }
    /\ "language" \in ContainedCategories

(***************************************************************************)
(* Part 8: the crawl (src/scraper/nofluff_scraper.py,                      *)
(* NoFluffScraper.scrape_all): the listing pages, then the item pages,     *)
(* each fetched by _fetch_page with its retries, paced by the Request      *)
(* Pacer and guarded by the Circuit Breaker.  A request is answered        *)
(* within the second in which it is issued.                                *)
(***************************************************************************)
MaxPages == 2
MaxUrls == 2
(* the site answers at most MaxFailures requests of a crawl with something *)
(* other than 200                                                          *)
MaxFailures == 1

(* CircuitBreaker(failure_threshold=5, timeout_seconds=300) *)
ScraperFailureThreshold == 5
ScraperTimeoutSeconds == 300

(* what the site and the machine do to one crawl at most: the URLs a       *)
(* listing page carries, the requests answered with something other than   *)
(* 200, the times a statement of the loop over the items raises            *)
Site(urls, failures, raises) ==
    [ urls |-> urls, failures |-> failures, raises |-> raises ]

(* the scraper: its configuration; where scrape_all is (phase: the         *)
(* listing pages, the item pages, returned, interrupted; pc: before        *)
(* wait(), before session.get, in the sleep before a retry); the page and  *)
(* the item at hand; retry_count and the delay of the innermost            *)
(* _fetch_page; all_urls of _scrape_job_urls while it runs, and            *)
(* stats['jobs_found']; the number of unique URLs it returned and          *)
(* job_urls, the list cut to max_jobs; the number of jobs scraped and      *)
(* stats['errors']; whether wait() has returned since the last network     *)
(* call; the network calls of the trailing window of the last one: when    *)
(* each was issued, in which phase, and whether wait() had returned since  *)
(* the call before it; the number of responses other than 200 so far.      *)
(* For the properties: last, the fetch that ended last (the page or item   *)
(* it was for, its last response and its number of requests, what the      *)
(* parser found, and failure_count of the breaker when it ended); asked,   *)
(* the last can_proceed() of the loop (the item, the answer, the jobs      *)
(* scraped by then); failed_run, the number of item fetches that ended     *)
(* without a body since the last one that ended with 200.                  *)
Scraper(retry_attempts, retry_backoff, max_pages, max_jobs) ==
    [ retry_attempts |-> retry_attempts,
      retry_backoff  |-> retry_backoff,
      max_pages      |-> max_pages,
      max_jobs       |-> max_jobs,
      site           |-> Site(MaxUrls, MaxFailures, 0),
      phase          |-> "listing",
      pc             |-> "get",
      page           |-> 1,
      i              |-> 0,
      retry_count    |-> 0,
      delay          |-> 0,
      all_urls       |-> << >>,
      jobs_found     |-> 0,
      unique_urls    |-> 0,
      job_urls       |-> << >>,
      jobs_scraped   |-> 0,
      errors         |-> 0,
      paced          |-> FALSE,
      calls          |-> << >>,
      failures       |-> 0,
      last           |-> NULL,
      asked          |-> NULL,
      failed_run     |-> 0 ]

Min2(a, b) == IF a <= b THEN a ELSE b

(* list(set(all_urls)) with every URL kept *)
Unique_Keep(urls) == urls

(* list(set(all_urls)): each URL once.  The order of the list is that of   *)
(* the set; URLs are named 1, 2, ... in the order in which the crawl       *)
(* takes them from it.                                                     *)
RECURSIVE Unique(_)
Unique(urls) ==
    IF urls = << >>
    THEN << >>
    ELSE LET rest == Unique(SubSeq(urls, 1, Len(urls) - 1))
             url == urls[Len(urls)]
         IN  IF \E j \in DOMAIN rest : rest[j] = url
             THEN rest
             ELSE Append(rest, url)

(* what the parser can find on a listing page when `known` URLs have been  *)
(* listed on the pages before: up to n URLs, no URL twice, first the ones  *)
(* not listed before and then ones that were; which of the earlier URLs a  *)
(* page lists again, and where, makes no difference to the crawl           *)
PageLists(known, n) ==
    UNION { { [ j \in 1 .. fresh + repeats |->
                  IF j <= fresh THEN known + j ELSE known + fresh + 1 - j ] :
              repeats \in 0 .. Min2(known, n - fresh) } :
            fresh \in 0 .. n }

(* the loop over job_urls that fetches whatever can_proceed() answers *)
EnterItem_NoAsk(c, b, t, i) ==
    IF i > Len(c.job_urls)
    THEN [ crawl |-> [ c EXCEPT !.phase = "returned", !.pc = "end" ],
           breaker |-> b ]
    ELSE LET answer == can_proceed(b, t)
         IN  [ crawl |-> [ c EXCEPT
                             !.i = i, !.retry_count = 0,
                             !.pc = IF i > 1 THEN "wait" ELSE "get",
                             !.asked = [ i |-> i, answer |-> answer.result,
                                         jobs_scraped |-> c.jobs_scraped ] ],
               breaker |-> answer.breaker ]

(* the loop over job_urls reaches item i: the breaker is asked, and the    *)
(* pacer for every item but the first                                      *)
EnterItem(c, b, t, i) ==
    IF i > Len(c.job_urls)
    THEN [ crawl |-> [ c EXCEPT !.phase = "returned", !.pc = "end" ],
           breaker |-> b ]
    ELSE LET answer == can_proceed(b, t)
             asked == [ c EXCEPT
                          !.asked = [ i |-> i, answer |-> answer.result,
                                      jobs_scraped |-> c.jobs_scraped ] ]
         IN  IF ~ answer.result
             THEN [ crawl |-> [ asked EXCEPT !.phase = "returned",
                                             !.pc = "end" ],
                    breaker |-> answer.breaker ]
             ELSE [ crawl |-> [ asked EXCEPT
                                  !.i = i, !.retry_count = 0,
                                  !.pc = IF i > 1 THEN "wait" ELSE "get" ],
                    breaker |-> answer.breaker ]

(* _scrape_job_urls returns the unique URLs, and all_urls is gone: no URL  *)
(* ends scrape_all, otherwise the list is cut to max_jobs and the loop     *)
(* over the items begins                                                   *)
EndListing(c, b, t) ==
    LET unique_urls == Unique(c.all_urls)
        listed == [ c EXCEPT !.all_urls = << >>,
                             !.unique_urls = Len(unique_urls) ]
    IN  IF unique_urls = << >>
        THEN [ crawl |-> [ listed EXCEPT !.phase = "returned", !.pc = "end" ],
               breaker |-> b ]
        ELSE EnterItem([ listed EXCEPT
                           !.phase = "items",
                           !.job_urls =
                               SubSeq(unique_urls, 1,
                                      Min2(Len(unique_urls), c.max_jobs)) ],
                       b, t, 1)

(* while page <= self.max_pages: the pacer for every page but the first *)
EnterPage(c, b, t, page) ==
    IF page > c.max_pages
    THEN EndListing(c, b, t)
    ELSE [ crawl |-> [ c EXCEPT !.page = page, !.retry_count = 0,
                         !.pc = IF page > 1 THEN "wait" ELSE "get" ],
           breaker |-> b ]

(* what follows the fetch of a listing page: html is the text or absent,   *)
(* page_urls the URLs the parser finds, has_next its answer                *)
AfterListingPage(c, b, t, html, page_urls, has_next) ==
    IF ~ html \/ page_urls = << >>
    THEN EndListing(c, b, t)
    ELSE LET collected == [ c EXCEPT !.all_urls = @ \o page_urls,
                                     !.jobs_found = @ + Len(page_urls) ]
         IN  IF has_next
             THEN EnterPage(collected, b, t, c.page + 1)
             ELSE EndListing(collected, b, t)

(* what follows the fetch of an item page: job_data is there when the      *)
(* page was fetched and parsed                                             *)
AfterItemPage(c, b, t, job_data) ==
    IF job_data
    THEN EnterItem([ c EXCEPT !.jobs_scraped = @ + 1 ],
                   record_success(b), t, c.i + 1)
    ELSE EnterItem(c, b, t, c.i + 1)

(* the calls that were issued within the window that ends with the last *)
Trailing(calls) ==
    SelectSeq(calls, LAMBDA call : call.at > calls[Len(calls)].at - Window)

CrawlInit ==
    /\ FreshLoader
    /\ now = 0
    /\ transformation = NULL
    /\ breaker_seen = NULL
    /\ pacer_seen = NULL
    /\ fetch = NULL
    /\ extraction = NULL
    /\ run = NULL
    /\ breaker = CircuitBreaker(ScraperFailureThreshold, ScraperTimeoutSeconds)
    /\ pacer = RateLimiter(MaxDelay, MaxDelay, MaxRpm)
    /\ crawl = Scraper(MaxRetries, MaxBackoff, MaxPages, MaxUrls)

offCrawl ==
    << loaderVars, breaker_seen, pacer_seen, fetch, extraction, run,
       transformation >>

(* self.rate_limiter.wait() before the fetch of a page *)
PaceRequest ==
    /\ crawl # NULL
    /\ crawl.pc = "wait"
    /\ \E drawn \in pacer.min_delay .. pacer.max_delay :
          LET done == now + Stretched(pacer, now, drawn)
          IN  /\ now' = done
              /\ pacer' = _record_request(
                             [ pacer EXCEPT !.last_request_time = << done >> ],
                             done)
    /\ crawl' = [ crawl EXCEPT !.pc = "get", !.paced = TRUE ]
    /\ UNCHANGED << breaker, offCrawl >>

(* session.get in _fetch_page and the branch taken on its outcome; when    *)
(* the fetch ends, what the loop does with its result                      *)
IssueRequest ==
    /\ crawl # NULL
    /\ crawl.pc = "get"
    /\ \E response \in Responses :
       \E page_urls \in IF crawl.phase = "listing" /\ response = Status(200)
                        THEN PageLists(Len(Unique(crawl.all_urls)),
                                       crawl.site.urls)
                        ELSE { << >> },
          has_next \in IF crawl.phase = "listing" /\ response = Status(200)
                       THEN BOOLEAN ELSE { FALSE },
          parsed \in IF crawl.phase = "items" /\ response = Status(200)
                     THEN BOOLEAN ELSE { FALSE } :
          LET html == response = Status(200)
              issued == [ crawl EXCEPT
                            !.calls = Trailing(Append(@,
                                         [ at |-> now, paced |-> crawl.paced,
                                           phase |-> crawl.phase ])),
                            !.paced = FALSE,
                            !.failures = IF html THEN @ ELSE @ + 1 ]
              ended == [ issued EXCEPT
                           !.last = [ phase    |-> crawl.phase,
                                      index    |-> IF crawl.phase = "listing"
                                                   THEN crawl.page ELSE crawl.i,
                                      response |-> response,
                                      requests |-> crawl.retry_count + 1,
                                      found    |-> IF html THEN Len(page_urls)
                                                   ELSE 0,
                                      has_next |-> html /\ has_next,
                                      failure_count |-> breaker.failure_count ],
                           !.failed_run = IF crawl.phase = "listing" THEN @
                                          ELSE IF html THEN 0
                                          ELSE IF response = Status(404) THEN @
                                          ELSE @ + 1 ]
              after == IF crawl.phase = "listing"
                       THEN AfterListingPage(ended, breaker, now, html,
                                             page_urls, has_next)
                       ELSE AfterItemPage(ended, breaker, now, html /\ parsed)
          IN  /\ ~ html => crawl.failures < crawl.site.failures
              /\ IF response \in Retryable
                    /\ crawl.retry_count < crawl.retry_attempts
                 THEN /\ crawl' = [ issued EXCEPT
                                      !.pc = "sleep",
                                      !.delay = RetryDelay(crawl.retry_backoff,
                                                   crawl.retry_count, response) ]
                      /\ UNCHANGED breaker
                 ELSE /\ crawl' = after.crawl
                      /\ breaker' = after.breaker
    /\ UNCHANGED << now, pacer, offCrawl >>

(* time.sleep returns; return self._fetch_page(url, retry_count + 1) *)
RetryRequest ==
    /\ crawl # NULL
    /\ crawl.pc = "sleep"
    /\ now' = now + crawl.delay
    /\ crawl' = [ crawl EXCEPT !.pc = "get", !.retry_count = @ + 1,
                               !.delay = 0 ]
    /\ UNCHANGED << breaker, pacer, offCrawl >>

(* KeyboardInterrupt in a sleep or in session.get: no except Exception of  *)
(* the scraper catches it, the with block of main closes the session       *)
InterruptCrawl ==
    /\ crawl # NULL
    /\ crawl.phase \in { "listing", "items" }
    /\ crawl' = [ crawl EXCEPT !.phase = "interrupted", !.pc = "end" ]
    /\ UNCHANGED << now, breaker, pacer, offCrawl >>

CrawlNext ==
    \/ PaceRequest
    \/ IssueRequest
    \/ RetryRequest
    \/ InterruptCrawl

CrawlSpec == CrawlInit /\ [][CrawlNext]_vars

(***************************************************************************)
(* Properties of the crawl                                                 *)
(***************************************************************************)

(* C29: every network call of a crawl (each listing page and each item     *)
(* page, the first ones included, and each retry) is preceded by a wait()  *)
(* of the pacer that returned after the call before it, so no two          *)
(* consecutive calls are issued closer together than min_delay.            *)
C29_EveryCallIsPaced ==
    crawl # NULL =>
        \A k \in 1 .. Len(crawl.calls) :
            /\ crawl.calls[k].paced
            /\ k > 1 =>
                  crawl.calls[k].at - crawl.calls[k - 1].at >= pacer.min_delay

(* C30: during a crawl the number of network requests issued within any    *)
(* trailing 60-second window never exceeds requests_per_minute.            *)
C30_RequestsWithinCap ==
    crawl # NULL => Len(crawl.calls) <= pacer.requests_per_minute

(* the statuses _fetch_page has a branch for *)
KnownStatuses ==
    { Status(code) : code \in { 200, 404, 429 } \cup ServerErrors }

(* the fetch of an item that ended last *)
ItemEnded ==
    crawl # NULL /\ crawl.last # NULL /\ crawl.last.phase = "items"

(* C31: an item fetch answered with a status other than 200, 404, 429,     *)
(* 500, 502, 503 and 504 is not retried, adds one to failure_count of the  *)
(* breaker, and the crawl goes on with the next item; an item fetch        *)
(* answered with 200 records a success, which leaves the breaker closed    *)
(* with a zero counter.                                                    *)
C31_UnknownStatusIsAFailure ==
    ItemEnded =>
        /\ (crawl.last.response.raised = ""
              /\ crawl.last.response \notin KnownStatuses) =>
              /\ crawl.last.requests = 1
              /\ breaker.failure_count = crawl.last.failure_count + 1
              /\ crawl.phase = "items" => crawl.i = crawl.last.index + 1
        /\ crawl.last.response = Status(200) =>
              /\ breaker.failure_count = 0
              /\ breaker.state = "closed"

(* C35: a crawl fetches at most max_pages listing pages and at most        *)
(* max_jobs item URLs, no item URL twice, and no item before discovery     *)
(* has stopped; discovery goes on to page p + 1 only when page p came      *)
(* with a body, the parser found a URL on it and signalled a further       *)
(* page, and p < max_pages.                                                *)
C35_CrawlWithinCaps ==
    crawl # NULL =>
        /\ crawl.page <= crawl.max_pages
        /\ Len(crawl.job_urls) <= crawl.max_jobs
        /\ crawl.i <= Len(crawl.job_urls)
        /\ \A j, k \in 1 .. crawl.i :
              crawl.job_urls[j] = crawl.job_urls[k] => j = k
        /\ \A j, k \in DOMAIN crawl.calls :
              (j < k /\ crawl.calls[j].phase = "items") =>
                  crawl.calls[k].phase = "items"
        /\ crawl.phase = "listing" => crawl.i = 0 /\ crawl.job_urls = << >>
        /\ (crawl.phase = "listing" /\ crawl.page > 1) =>
              /\ crawl.last # NULL
              /\ crawl.last.phase = "listing"
              /\ crawl.last.index = crawl.page - 1
              /\ crawl.last.index < crawl.max_pages
              /\ crawl.last.response = Status(200)
              /\ crawl.last.found >= 1
              /\ crawl.last.has_next

(* both pages were full and the second listed a URL of the first again;    *)
(* of the three unique URLs max_jobs were fetched                          *)
C35_Witness ==
    /\ crawl # NULL
    /\ crawl.phase = "returned"
    /\ crawl.page = crawl.max_pages
    /\ crawl.jobs_found > crawl.unique_urls
    /\ crawl.unique_urls > crawl.max_jobs
    /\ crawl.i = crawl.max_jobs
    /\ crawl.jobs_scraped = crawl.max_jobs

(***************************************************************************)
(* A crawl of one listing page that carries more items than the breaker    *)
(* takes failures, each fetched without a retry.  A statement of the loop  *)
(* over the items outside _scrape_job_detail, which catches what it        *)
(* raises itself, can raise an Exception: wait() is the one that does.     *)
(***************************************************************************)
LongList == ScraperFailureThreshold + 2

LongCrawlInit ==
    /\ FreshLoader
    /\ now = 0
    /\ transformation = NULL
    /\ breaker_seen = NULL
    /\ pacer_seen = NULL
    /\ fetch = NULL
    /\ extraction = NULL
    /\ run = NULL
    /\ breaker = CircuitBreaker(ScraperFailureThreshold, ScraperTimeoutSeconds)
    /\ pacer = RateLimiter(MaxDelay, MaxDelay, MaxRpm)
    /\ crawl = [ Scraper(0, MaxBackoff, 1, LongList) EXCEPT
                   !.site = Site(LongList, LongList, ScraperFailureThreshold) ]

(* the except branch of the loop over the items: stats['errors'] += 1,     *)
(* record_failure(), continue                                              *)
RaiseInLoop ==
    /\ crawl # NULL
    /\ crawl.phase = "items"
    /\ crawl.pc = "wait"
    /\ crawl.errors < crawl.site.raises
    /\ LET next == EnterItem([ crawl EXCEPT !.errors = @ + 1 ],
                             record_failure(breaker, now), now, crawl.i + 1)
       IN  /\ crawl' = next.crawl
           /\ breaker' = next.breaker
    /\ UNCHANGED << now, pacer, offCrawl >>

LongCrawlNext ==
    \/ PaceRequest
    \/ IssueRequest
    \/ RaiseInLoop
    \/ InterruptCrawl

LongCrawlSpec == LongCrawlInit /\ [][LongCrawlNext]_vars

(***************************************************************************)
(* Properties of the crawl and the breaker                                 *)
(***************************************************************************)

(* C32: when failure_threshold item fetches in a row have failed, after    *)
(* their retries or on a status that is not retried, the breaker is open   *)
(* and the crawl is over: no remaining item is requested.                  *)
C32_FailedFetchesOpenTheBreaker ==
    (crawl # NULL /\ crawl.failed_run >= breaker.failure_threshold) =>
        /\ breaker.state = "open"
        /\ crawl.phase \in { "returned", "interrupted" }

(* C33: the loop is at an item, in wait(), at the request or in a retry,   *)
(* only after can_proceed() answered true for that item; once it answered  *)
(* false scrape_all has returned, no further item was entered, and the     *)
(* jobs scraped are those scraped when it answered.                        *)
C33_FetchOnlyWhenAllowed ==
    crawl # NULL =>
        /\ (crawl.phase = "items" /\ crawl.pc \in { "wait", "get", "sleep" }) =>
              /\ crawl.asked # NULL
              /\ crawl.asked.i = crawl.i
              /\ crawl.asked.answer
        /\ (crawl.asked # NULL /\ ~ crawl.asked.answer) =>
              /\ crawl.phase = "returned"
              /\ crawl.i = crawl.asked.i - 1
              /\ crawl.jobs_scraped = crawl.asked.jobs_scraped

(* the breaker, opened by failure_threshold raises in a row, refused an    *)
(* item of the list after a job had been scraped                           *)
C33_Witness ==
    /\ crawl # NULL
    /\ crawl.asked # NULL
    /\ ~ crawl.asked.answer
    /\ crawl.asked.i <= Len(crawl.job_urls)
    /\ crawl.jobs_scraped >= 1
    /\ breaker.state = "open"
    /\ breaker.failure_count = breaker.failure_threshold

(***************************************************************************)
(* Part 9: an interrupted invocation (scripts/run_etl.py, main).  Once     *)
(* scrape_all has returned, the scraper is closed and only the scraped     *)
(* records go on to the loader, so an invocation is in one of two phases   *)
(* that share no state: the crawl of Part 8, or load_all, step by step as  *)
(* in Part 1, on a store that earlier invocations have left.  A behaviour  *)
(* of RunSpec is one of the two phases.                                    *)
(***************************************************************************)

(* the stores an earlier invocation can have left: nothing, or one record  *)
(* loaded on the first date                                                *)
EarlierStores ==
    { EmptyDb } \cup
    { load_all(EmptyDb, << Stamp(item, 1) >>, 1, << "none" >>).db :
        item \in Items }

LoadPhaseInit ==
    /\ \E store \in EarlierStores :
          /\ db = store
          /\ committed = store
          /\ pre = store
    /\ stats = ZeroStats
    /\ pc = "idle"
    /\ batch = << >>
    /\ snapshot_date = 1
    /\ pos = 1
    /\ active_job_ids = {}
    /\ failed = {}
    /\ loads = 0
    /\ faults = 0
    /\ outcome = "none"
    /\ reloaded = FALSE
    /\ now = 0
    /\ transformation = NULL
    /\ crawl = NULL
    /\ NoBreaker
    /\ NoPacer
    /\ fetch = NULL
    /\ extraction = NULL
    /\ run = NULL

RunInit == CrawlInit \/ LoadPhaseInit

(* step 4 of main: loader.load_all(transformed_jobs, date.today()), once   *)
(* in an invocation                                                        *)
BeginRunLoad ==
    /\ crawl = NULL
    /\ loads = 0
    /\ BeginLoad

RunNext ==
    \/ PaceRequest
    \/ IssueRequest
    \/ RetryRequest
    \/ InterruptCrawl
    \/ BeginRunLoad
    \/ LoadItem
    \/ Reconcile
    \/ Commit
    \/ RaiseInTransaction
    \/ Interrupt

RunSpec == RunInit /\ [][RunNext]_vars

(***************************************************************************)
(* Properties of an interrupted invocation                                 *)
(***************************************************************************)
Interrupted ==
    \/ crawl # NULL /\ crawl.phase = "interrupted"
    \/ pc = "idle" /\ outcome = "interrupted"

(* while load_all runs nothing it writes is committed, and after an        *)
(* interrupt the store is what it was when the call began                  *)
NothingCommitted ==
    /\ outcome = "running" => committed = pre
    /\ (pc = "idle" /\ outcome = "interrupted") =>
          /\ committed = pre
          /\ db = pre

(* C28: an operator interrupt at any point of an invocation stops it: no   *)
(* step follows, so no network call is issued after it, and no write of a  *)
(* load_all in progress is committed: after the interrupt the store is     *)
(* what it was when that load began.                                       *)
C28_InterruptStopsTheRun ==
    /\ [] NothingCommitted
    /\ [][ Interrupted => UNCHANGED vars ]_vars

(* the load was interrupted after it had written postings and              *)
(* technologies to a store that was not empty                              *)
C28_Witness ==
    /\ pc = "idle"
    /\ outcome = "interrupted"
    /\ pre # EmptyDb
    /\ stats.jobs_new > 0
    /\ stats.jobs_updated > 0
    /\ stats.technologies_new > 0

=============================================================================
